---- MODULE Spec2Model ----
(***************************************************************************)
(* Verification model of the netsports-fantasy backend: the stats sync     *)
(* service (services/nhlApi.js) and the roster save / submit routes        *)
(* (routes/rosters.js and its transactional variant).                      *)
(*                                                                         *)
(* Every `await` of the JavaScript handlers is a scheduling point, so one  *)
(* action of the model is the code between two awaits together with the    *)
(* database statement the first await issues.                              *)
(***************************************************************************)
EXTENDS Integers, Sequences, FiniteSets, TLC

(***************************************************************************)
(* Bounds of the model                                                     *)
(***************************************************************************)
MaxGames == 2          \* longest upstream game log of one player
MaxRuns == 2           \* sync runs in one behaviour
MaxFaults == 2         \* injected database / transport failures in one behaviour
MaxTime == 1           \* the clock runs from 0 to MaxTime
MaxStatementFaults == 1 \* statements of roster requests that reject in one behaviour
MaxGameId == 9999      \* largest game number the classifier is called with
MaxCrowd == 99         \* verified users without a roster, next to users 1 and 2
MaxUsers == 4          \* rows of users up to which a registration is taken
MaxSeries == 2         \* longest series array of the playoff bracket

(***************************************************************************)
(* Static tables: teams and players (schema: teams, players)               *)
(***************************************************************************)
Rounds == {1, 2, 3}

teams ==
  [ WST |-> [conference |-> "western"],
    EST |-> [conference |-> "eastern"],
    OUT |-> [conference |-> "western"] ]

Pl(pos, team, cost) == [position |-> pos, team_abbrev |-> team, cost |-> cost]

\* Table players: the columns the program reads and never writes (costs
\* respect CHECK 1..5).  Column is_active is part of the state.
players ==
  << Pl("forward", "WST", 3),        \*  1
     Pl("forward", "WST", 3),        \*  2
     Pl("forward", "WST", 2),        \*  3
     Pl("defense", "WST", 2),        \*  4
     Pl("defense", "WST", 2),        \*  5
     Pl("goalie",  "WST", 3),        \*  6
     Pl("forward", "EST", 3),        \*  7
     Pl("forward", "EST", 3),        \*  8
     Pl("forward", "EST", 2),        \*  9
     Pl("defense", "EST", 2),        \* 10
     Pl("defense", "EST", 2),        \* 11
     Pl("goalie",  "EST", 3),        \* 12
     Pl("forward", "WST", 3),        \* 13
     Pl("forward", "OUT", 2) >>      \* 14

PlayerIds == DOMAIN players

(***************************************************************************)
(* Upstream game logs.  An optional JSON field is a set: {} when the field *)
(* is absent, {v} when it is present with value v.                         *)
(***************************************************************************)
Game(id, g, a, dec, so, ga) ==
  [malformed |-> FALSE, gameId |-> id, goals |-> g, assists |-> a,
   decision |-> dec, shutouts |-> so, goalsAgainst |-> ga]

\* a null entry of the gameLog array: reading game.gameId throws
MalformedGame ==
  [malformed |-> TRUE, gameId |-> 0, goals |-> {}, assists |-> {},
   decision |-> "", shutouts |-> {}, goalsAgainst |-> {}]

\* game logs the sync is run against
SkaterGames ==
  { Game(1101, {1}, {1}, "", {}, {}),
    Game(2102, {2}, {}, "", {}, {}),
    MalformedGame }

GoalieGames ==
  { Game(1101, {}, {}, "W", {}, {0}),
    Game(3403, {}, {}, "W", {2}, {1}) }

SeqsUpTo(S, n) == UNION { [1..k -> S] : k \in 0..n }

\* what the upstream holds for one player: no playoff games (the request is
\* answered 404) or a game log
UpstreamFor(p) ==
  LET games == IF players[p].position = "goalie" THEN GoalieGames ELSE SkaterGames
  IN  { [found |-> FALSE, gameLog |-> << >>] }
      \cup { [found |-> TRUE, gameLog |-> l] : l \in SeqsUpTo(games, MaxGames) }


(***************************************************************************)
(* Round classifier and stat aggregator (pure functions of nhlApi.js)      *)
(***************************************************************************)
\* String(gameId).length for a non-negative integer id
RECURSIVE NumDigits(_)
NumDigits(n) == IF n < 10 THEN 1 ELSE 1 + NumDigits(n \div 10)

\* parseInt(gameIdStr.slice(-4, -2)): the two digits before the last two
RoundCode(gameId) == (gameId \div 100) % 100

\* a mutation of determineRound: the Cup Final codes 41-47 are not round 3
determineRoundWithoutCupFinal(gameId) ==
  IF NumDigits(gameId) < 4 THEN 1
  ELSE LET roundCode == RoundCode(gameId)
       IN  IF roundCode >= 11 /\ roundCode <= 17 THEN 1
           ELSE IF roundCode >= 21 /\ roundCode <= 27 THEN 2
           ELSE IF roundCode >= 31 /\ roundCode <= 37 THEN 3
           ELSE 1

determineRound(gameId) ==
  IF NumDigits(gameId) < 4 THEN 1
  ELSE LET roundCode == RoundCode(gameId)
       IN  IF roundCode >= 11 /\ roundCode <= 17 THEN 1
           ELSE IF roundCode >= 21 /\ roundCode <= 27 THEN 2
           ELSE IF roundCode >= 31 /\ roundCode <= 47 THEN 3
           ELSE 1

ZeroRow == [goals |-> 0, assists |-> 0, wins |-> 0, shutouts |-> 0, gamesPlayed |-> 0]

ZeroStats == [rd \in Rounds |-> ZeroRow]

\* JavaScript truthiness of an optional numeric field, and `field || 0`
Truthy(f) == f # {} /\ f # {0}
OrZero(f) == IF Truthy(f) THEN CHOOSE v \in f : TRUE ELSE 0
\* a mutation of Max: the credit for a clean win is added to the shutouts
MaxAdds(a, b) == a + b

\* Math.max(a, b)
Max(a, b) == IF a >= b THEN a ELSE b

\* a mutation of AddGame: games played are counted for skaters only
AddGameSkatersOnly(stats, game, isGoalie) ==
  LET round == determineRound(game.gameId)
      row == stats[round]
  IN  [stats EXCEPT ![round] =
         IF isGoalie
         THEN [row EXCEPT !.wins = IF game.decision = "W" THEN @ + 1 ELSE @]
         ELSE [row EXCEPT !.goals = @ + OrZero(game.goals),
                          !.assists = @ + OrZero(game.assists),
                          !.gamesPlayed = @ + 1]]

\* body of the `for (const game of gameLog.gameLog)` loop for one game
AddGame(stats, game, isGoalie) ==
  LET round == determineRound(game.gameId)
      row == stats[round]
      wins1 == IF game.decision = "W" THEN row.wins + 1 ELSE row.wins
      so1 == IF Truthy(game.shutouts) THEN row.shutouts + OrZero(game.shutouts)
             ELSE row.shutouts
      so2 == IF game.goalsAgainst = {0} /\ game.decision = "W" THEN Max(so1, 1) ELSE so1
      row1 == IF isGoalie
              THEN [row EXCEPT !.wins = wins1, !.shutouts = so2]
              ELSE [row EXCEPT !.goals = @ + OrZero(game.goals),
                               !.assists = @ + OrZero(game.assists)]
  IN  [stats EXCEPT ![round] = [row1 EXCEPT !.gamesPlayed = @ + 1]]

RECURSIVE ParseFrom(_, _, _, _)
ParseFrom(stats, log, i, isGoalie) ==
  IF i > Len(log) THEN [threw |-> FALSE, stats |-> stats]
  ELSE IF log[i].malformed THEN [threw |-> TRUE, stats |-> stats]
  ELSE ParseFrom(AddGame(stats, log[i], isGoalie), log, i + 1, isGoalie)

\* parseGameLogStats(gameLog, isGoalie); threw = a TypeError left the function
parseGameLogStats(gameLog, isGoalie) == ParseFrom(ZeroStats, gameLog, 1, isGoalie)

(***************************************************************************)
(* State                                                                   *)
(***************************************************************************)
VARIABLES
  active_players,    \* column is_active of players: the ids flagged true, ascending
  upstream,          \* what the NHL API holds for each active player
  player_stats,      \* table player_stats, keyed by <<player_id, round>>
  stat_update_log,   \* table stat_update_log, indexed by id
  settings,          \* rows stats_last_updated / stats_verified of settings
  sync,              \* local state of each updateAllPlayerStats call
  statsAfterRun,     \* history: player_stats when each call returned
  faults,            \* environment: failures injected so far
  variant,           \* which roster route file is mounted: "plain" or "tx"
  now,               \* the clock (new Date())
  pick_deadline,     \* table rounds: round_number -> pick_deadline ({} = NULL)
  team_qualifications, \* round_number -> team_abbrev of the rows with qualified = true
  rosters,           \* table rosters (committed rows)
  roster_players,    \* table roster_players (committed rows)
  tiebreakers,       \* table tiebreakers (committed rows)
  req,               \* the HTTP requests in flight, one per connection slot
  users,             \* table users (id, is_verified)
  call,              \* a read-only call in progress: the function and its arguments
  ret,               \* what that call returned
  bracket,           \* what the NHL API holds as the playoff bracket
  team_state,        \* columns is_eliminated / eliminated_round of table teams
  elim               \* local state of each updateEliminatedTeams call

syncVars == << upstream, player_stats, stat_update_log, settings, sync, statsAfterRun >>

\* what the roster routes read and write, and with it the column of players
\* that no route writes
rosterVars == << active_players, variant, now, pick_deadline, team_qualifications, rosters, roster_players, tiebreakers, req >>

callVars == << users, call, ret >>

elimVars == << bracket, team_state, elim >>

vars == << active_players, upstream, player_stats, stat_update_log, settings, sync, statsAfterRun, faults,
           variant, now, pick_deadline, team_qualifications, rosters, roster_players, tiebreakers, req,
           users, call, ret, bracket, team_state, elim >>

Runs == 1..MaxRuns

NoRow == [present |-> FALSE, goals |-> 0, assists |-> 0, wins |-> 0,
          shutouts |-> 0, games_played |-> 0]

\* SELECT id, nhl_id, position FROM players WHERE is_active = true
ActivePlayers == active_players

ActiveIds == { ActivePlayers[i] : i \in DOMAIN ActivePlayers }

\* the flags the sync and the roster routes are run with: one skater and one
\* goaltender are active; and those the leaderboard is read with: a
\* defenseman is active too
TwoActive == << 1, 6 >>
ThreeActive == << 1, 4, 6 >>

\* keys of player_stats, PRIMARY KEY (player_id, round): those of the active
\* players, the only rows a sync reads or writes, to which the table is
\* confined where the leaderboard is not read; and those of all players
StatKeys == ActiveIds \X Rounds

AllStatKeys == PlayerIds \X Rounds

\* the rows of the active players before any is written
NoStats == [k \in StatKeys |-> NoRow]

NoResult == [returned |-> FALSE, success |-> FALSE, playersUpdated |-> 0, errors |-> << >>]

IdleSync ==
  [pc |-> "idle", logId |-> 0, idx |-> 0, rnd |-> 0, stats |-> ZeroStats,
   playersUpdated |-> 0, errors |-> << >>, result |-> NoResult,
   outcome |-> << >>, fetched |-> << >>, atStart |-> << >>, halted |-> ""]

\* a bracket answer without a series array
NoBracket == [hasSeries |-> FALSE, series |-> << >>]

\* teams as the seed script leaves them: nobody is eliminated
NoneEliminated == [t \in DOMAIN teams |-> [is_eliminated |-> FALSE, eliminated_round |-> 0]]

IdleElim == [pc |-> "idle", idx |-> 0, threw |-> FALSE]

\* no bracket step takes part
ElimIdle ==
  /\ bracket = NoBracket
  /\ team_state = NoneEliminated
  /\ elim = [r \in Runs |-> IdleElim]

\* history kept in sync[r].outcome: how the iteration of each player ended
\* ("updated", "nodata" when the fetch returned null, "threw"); in
\* sync[r].fetched: the game logs getPlayerGameLog returned, with their player;
\* in sync[r].atStart: player_stats when the call began, kept when no other
\* call was in progress at that time; and in sync[r].halted:
\* the statement at which the process was stopped
Ended(s, how) == [s EXCEPT !.outcome = Append(@, how)]

Fetched(s, p, log) == [s EXCEPT !.fetched = Append(@, [player |-> p, gameLog |-> log])]

PlayerError(p) == [kind |-> "player", id |-> p]
FatalError == [kind |-> "fatal", id |-> 0]

(***************************************************************************)
(* Roster routes: request bodies and the tables they read                  *)
(***************************************************************************)
SALARY_CAP == 30

\* users.id of the users who send roster requests
Users == {1}

\* connections of the pool that can carry a request at the same time
Slots == {"a", "b"}

\* INSERT INTO rounds ... of /api/migrate: four different deadlines, the testing
\* round's long before the first round's; the clock starts at 0
MigratedDeadlines == [n \in 0..3 |-> {n - 1}]

\* team_qualifications as /api/migrate creates it: no row
NoQualifications == [n \in 0..3 |-> {}]

\* the teams of this model in a list an admin posted for every round
PlayoffTeams == [n \in 0..3 |-> {"WST", "EST"}]

\* req.body.selections / stars (0 = null) / tiebreakers ({} = absent)
Sel(wf, wd, wg, ef, ed, eg) ==
  [western |-> [forwards |-> wf, defense |-> wd, goalies |-> wg],
   eastern |-> [forwards |-> ef, defense |-> ed, goalies |-> eg]]

Stars(f, d, g) == [forward |-> f, defense |-> d, goalie |-> g]

Body(sel, stars, tb) == [selections |-> sel, stars |-> stars, tiebreakers |-> tb]

EmptyBody == Body(Sel(<< >>, << >>, << >>, << >>, << >>, << >>), Stars(0, 0, 0), {})

East == << <<7, 8, 9>>, <<10, 11>>, <<12>> >>

WithWest(wf, stars, tb) == Body(Sel(wf, <<4, 5>>, <<6>>, East[1], East[2], East[3]), stars, tb)

FullBody == WithWest(<<1, 2, 3>>, Stars(1, 4, 6), {})          \* 3F/2D/1G twice, cost 30
OverBody == WithWest(<<1, 2, 13>>, Stars(1, 4, 6), {})         \* cost 31
IncompleteBody == WithWest(<<1, 2>>, Stars(1, 4, 6), {})       \* 2 western forwards
UnqualifiedBody == WithWest(<<1, 2, 14>>, Stars(1, 4, 6), {})  \* 14 plays for OUT
OverUnqualifiedBody == WithWest(<<1, 2, 13, 14>>, Stars(1, 4, 6), {})
SameRoleStarsBody == WithWest(<<1, 2, 3>>, Stars(1, 2, 6), {}) \* stars.defense names a forward
TwoStarsBody == WithWest(<<1, 2, 3>>, Stars(1, 4, 0), {})
ExtraBody == Body(Sel(<<13>>, << >>, << >>, << >>, << >>, << >>), Stars(13, 0, 0), {7})
DuplicateBody == Body(Sel(<<13, 13>>, << >>, << >>, << >>, << >>, << >>), Stars(0, 0, 0), {})

SaveBodies ==
  { EmptyBody, FullBody, OverBody, IncompleteBody, UnqualifiedBody, OverUnqualifiedBody,
    SameRoleStarsBody, TwoStarsBody, ExtraBody, DuplicateBody }

\* req.params.round as sent by clients: the round being played, and rounds the
\* save handler refuses before it reads the body
PlayedRounds == {1}
RefusedRounds == {0, 4}

\* allPlayers / playerIds: the selections flattened in conference, position order
AllPlayers(sel) ==
  sel.western.forwards \o sel.western.defense \o sel.western.goalies
  \o sel.eastern.forwards \o sel.eastern.defense \o sel.eastern.goalies

SeqRange(seq) == { seq[i] : i \in DOMAIN seq }

Min(S) == CHOOSE x \in S : \A y \in S : x <= y

RECURSIVE SumCost(_)
SumCost(S) ==
  IF S = {} THEN 0 ELSE LET p == Min(S) IN players[p].cost + SumCost(S \ {p})

\* SELECT COALESCE(SUM(cost), 0) as total FROM players WHERE id = ANY($1)
TotalCost(ids) == SumCost(SeqRange(ids) \cap PlayerIds)

\* if (salaryResult.rows[0].total > SALARY_CAP)
OverCap(total) == total > SALARY_CAP

\* SELECT COUNT(*) ... WHERE p.id = ANY($1) AND p.team_abbrev NOT IN (qualified)
InvalidCount(ids, round) ==
  Cardinality({ p \in SeqRange(ids) \cap PlayerIds :
                  players[p].team_abbrev \notin team_qualifications[round] })

\* Object.values(stars || {}).includes(playerId), stars having the keys
\* forward, defense and goalie
IsStar(stars, id) == stars.forward = id \/ stars.defense = id \/ stars.goalie = id

\* the rows of one roster joined with players and teams
Joined(rows) ==
  { [position |-> players[rp.player_id].position,
     conference |-> teams[players[rp.player_id].team_abbrev].conference,
     is_star |-> rp.is_star, player_id |-> rp.player_id] : rp \in rows }

Count(rows, conf, pos) ==
  Cardinality({ j \in Joined(rows) : j.conference = conf /\ j.position = pos })

StarCount(rows) == Cardinality({ j \in Joined(rows) : j.is_star })

\* a mutation of IsComplete: the number of stars is not checked
IsCompleteWithoutStars(rows) ==
  /\ Count(rows, "western", "forward") = 3 /\ Count(rows, "western", "defense") = 2
  /\ Count(rows, "western", "goalie") = 1
  /\ Count(rows, "eastern", "forward") = 3 /\ Count(rows, "eastern", "defense") = 2
  /\ Count(rows, "eastern", "goalie") = 1

\* const isComplete = counts.western.forward === 3 && ... && starCount === 3
IsComplete(rows) ==
  /\ Count(rows, "western", "forward") = 3 /\ Count(rows, "western", "defense") = 2
  /\ Count(rows, "western", "goalie") = 1
  /\ Count(rows, "eastern", "forward") = 3 /\ Count(rows, "eastern", "defense") = 2
  /\ Count(rows, "eastern", "goalie") = 1
  /\ StarCount(rows) = 3

\* an open transaction of the transactional variant: rows written, not committed
NoTx == [rosters |-> {}, deleted |-> {}, inserted |-> {}, ties |-> {}]

NoTables == [rosters |-> {}, roster_players |-> {}, tiebreakers |-> {}]

IdleReq ==
  [kind |-> "none", user |-> 1, round |-> 0, body |-> EmptyBody, pc |-> "idle",
   resp |-> "none", rosterId |-> 0, rows |-> << >>, k |-> 0, tx |-> NoTx,
   targets |-> {}, nowAtCheck |-> 0, failedAt |-> "none", adminChanged |-> FALSE,
   before |-> NoTables]

NoCall == [fn |-> "none"]

NoRet == [returned |-> FALSE]

\* one verified user and no read-only call in progress
CallIdle ==
  /\ users = { [id |-> u, is_verified |-> TRUE] : u \in Users }
  /\ call = NoCall
  /\ ret = NoRet

\* the roster side right after the schema was created; it does not take part
\* in the sync
RosterTablesEmpty ==
  /\ variant = "plain"
  /\ now = 0
  /\ pick_deadline = MigratedDeadlines
  /\ team_qualifications = NoQualifications
  /\ rosters = {}
  /\ roster_players = {}
  /\ tiebreakers = {}
  /\ req = [i \in Slots |-> IdleReq]

\* the sync is run against any upstream in which no two players have played
\* more than MaxGames games between them
InitSync ==
  /\ active_players = TwoActive
  /\ upstream \in [ActiveIds -> UNION { UpstreamFor(p) : p \in ActiveIds }]
  /\ \A p \in ActiveIds : upstream[p] \in UpstreamFor(p)
  /\ \A p, q \in ActiveIds :
       p # q => Len(upstream[p].gameLog) + Len(upstream[q].gameLog) <= MaxGames
  /\ player_stats = NoStats
  /\ stat_update_log = << >>
  /\ settings = [stats_last_updated |-> 0, stats_verified |-> FALSE]
  /\ sync = [r \in Runs |-> IdleSync]
  /\ statsAfterRun = [r \in Runs |-> NoStats]
  /\ faults = 0
  /\ RosterTablesEmpty
  /\ CallIdle
  /\ ElimIdle


(***************************************************************************)
(* Sync orchestrator: NHLApiService.updateAllPlayerStats                   *)
(***************************************************************************)
\* end of one iteration of `for (const player of playersResult.rows)`
NextPlayer(s) ==
  IF s.idx < Len(ActivePlayers)
  THEN [s EXCEPT !.idx = @ + 1, !.pc = "fetch"]
  ELSE [s EXCEPT !.pc = "settings_last_updated"]

\* a mutation of CatchPlayerError: the per-player failure ends the loop
CatchPlayerErrorAborts(s) ==
  [s EXCEPT !.errors = Append(@, PlayerError(ActivePlayers[s.idx])), !.pc = "catch"]

\* catch (playerError) { errors.push(...) } and on to the next player
CatchPlayerError(s) ==
  NextPlayer([s EXCEPT !.errors = Append(@, PlayerError(ActivePlayers[s.idx]))])

\* catch (error) { errors.push(`Fatal error: ...`); await completeUpdateLog(...
CatchFatal(s) == [s EXCEPT !.errors = Append(@, FatalError), !.pc = "catch"]

\* a mutation of UpsertRow: DO UPDATE SET goals = player_stats.goals + $3, ...
UpsertRowIncrement(old, row) ==
  [present |-> TRUE, goals |-> old.goals + row.goals, assists |-> old.assists + row.assists,
   wins |-> old.wins + row.wins, shutouts |-> old.shutouts + row.shutouts,
   games_played |-> old.games_played + row.gamesPlayed]

\* INSERT ... ON CONFLICT (player_id, round) DO UPDATE SET goals = $3, ...
UpsertRow(old, row) ==
  [present |-> TRUE, goals |-> row.goals, assists |-> row.assists, wins |-> row.wins,
   shutouts |-> row.shutouts, games_played |-> row.gamesPlayed]

\* nothing waits for a run in progress: runStatsUpdate, its cron callbacks and
\* POST /refresh call updateAllPlayerStats at once; the calls are numbered in
\* the order in which they begin
MayStart(r) == IF r = 1 THEN TRUE ELSE sync[r - 1].pc # "idle"

\* some other call is between its first statement and its return
OtherRunInProgress(r) ==
  \E q \in Runs \ {r} : sync[q].pc \notin {"idle", "done", "halted", "rejected"}

\* startUpdateLog: INSERT INTO stat_update_log (status) VALUES ('running')
StartUpdateLog(r) ==
  /\ UNCHANGED << rosterVars, callVars, elimVars >>
  /\ sync[r].pc = "idle"
  /\ MayStart(r)
  /\ stat_update_log' = Append(stat_update_log,
        [status |-> "running", players_updated |-> 0, errors |-> << >>])
  /\ sync' = [sync EXCEPT ![r] = [@ EXCEPT !.pc = "query_players",
                                          !.logId = Len(stat_update_log) + 1,
                                          !.atStart = IF OtherRunInProgress(r)
                                                      THEN << >> ELSE player_stats]]
  /\ UNCHANGED faults
  /\ UNCHANGED << upstream, player_stats, settings, statsAfterRun >>

\* SELECT id, nhl_id, position FROM players WHERE is_active = true
QueryPlayers(r) ==
  /\ UNCHANGED << rosterVars, callVars, elimVars >>
  /\ sync[r].pc = "query_players"
  /\ sync' = [sync EXCEPT ![r] = NextPlayer(@)]
  /\ UNCHANGED faults
  /\ UNCHANGED << upstream, player_stats, stat_update_log, settings, statsAfterRun >>

QueryPlayersFails(r) ==
  /\ UNCHANGED << rosterVars, callVars, elimVars >>
  /\ faults < MaxFaults
  /\ faults' = faults + 1
  /\ sync[r].pc = "query_players"
  /\ sync' = [sync EXCEPT ![r] = CatchFatal(@)]
  /\ UNCHANGED << upstream, player_stats, stat_update_log, settings, statsAfterRun >>

\* a mutation of getPlayerGameLog: a 404 answer is handled like any other error
getPlayerGameLogNullOn404(answer) ==
  [isNull |-> ~answer.found, gameLog |-> IF answer.found THEN answer.gameLog ELSE << >>]

\* getPlayerGameLog when the upstream answers: response.data on 200 and
\* { gameLog: [] } on 404
getPlayerGameLog(answer) ==
  [isNull |-> FALSE, gameLog |-> IF answer.found THEN answer.gameLog ELSE << >>]

\* getPlayerGameLog answers (200, or 404 turned into an empty log), then
\* parseGameLogStats runs before the next await
FetchGameLog(r) ==
  /\ UNCHANGED << rosterVars, callVars, elimVars >>
  /\ sync[r].pc = "fetch"
  /\ LET p == ActivePlayers[sync[r].idx]
         gameLog == getPlayerGameLog(upstream[p])
         parsed == parseGameLogStats(gameLog.gameLog, players[p].position = "goalie")
     IN  sync' = [sync EXCEPT ![r] =
                    IF gameLog.isNull THEN Ended([@ EXCEPT !.pc = "sleep"], "nodata")
                    ELSE IF parsed.threw
                      THEN Ended(CatchPlayerError(Fetched(@, p, gameLog.gameLog)), "threw")
                    ELSE [Fetched(@, p, gameLog.gameLog) EXCEPT
                            !.stats = parsed.stats, !.rnd = 1, !.pc = "upsert"]]
  /\ UNCHANGED faults
  /\ UNCHANGED << upstream, player_stats, stat_update_log, settings, statsAfterRun >>

\* getPlayerGameLog catches a transport error and returns null: `if (gameLog)`
\* is skipped and the loop goes on to the pacing delay
FetchGameLogFails(r) ==
  /\ UNCHANGED << rosterVars, callVars, elimVars >>
  /\ faults < MaxFaults
  /\ faults' = faults + 1
  /\ sync[r].pc = "fetch"
  /\ sync' = [sync EXCEPT ![r] = Ended([@ EXCEPT !.pc = "sleep"], "nodata")]
  /\ UNCHANGED << upstream, player_stats, stat_update_log, settings, statsAfterRun >>

\* one iteration of `for (const round of [1, 2, 3])`
UpsertStats(r) ==
  /\ UNCHANGED << rosterVars, callVars, elimVars >>
  /\ sync[r].pc = "upsert"
  /\ LET s == sync[r]
         k == << ActivePlayers[s.idx], s.rnd >>
     IN  /\ player_stats' = [player_stats EXCEPT ![k] = UpsertRow(@, s.stats[s.rnd])]
         /\ sync' = [sync EXCEPT ![r] =
                       IF s.rnd < 3 THEN [@ EXCEPT !.rnd = @ + 1]
                       ELSE Ended([@ EXCEPT !.playersUpdated = @ + 1, !.pc = "sleep"],
                                  "updated")]
  /\ UNCHANGED faults
  /\ UNCHANGED << upstream, stat_update_log, settings, statsAfterRun >>

UpsertStatsFails(r) ==
  /\ UNCHANGED << rosterVars, callVars, elimVars >>
  /\ faults < MaxFaults
  /\ faults' = faults + 1
  /\ sync[r].pc = "upsert"
  /\ sync' = [sync EXCEPT ![r] = Ended(CatchPlayerError(@), "threw")]
  /\ UNCHANGED << upstream, player_stats, stat_update_log, settings, statsAfterRun >>

\* await this.sleep(100)
Sleep(r) ==
  /\ UNCHANGED << rosterVars, callVars, elimVars >>
  /\ sync[r].pc = "sleep"
  /\ sync' = [sync EXCEPT ![r] = NextPlayer(@)]
  /\ UNCHANGED faults
  /\ UNCHANGED << upstream, player_stats, stat_update_log, settings, statsAfterRun >>

\* UPDATE settings SET value = $1 WHERE key = 'stats_last_updated'
UpdateLastUpdated(r) ==
  /\ UNCHANGED << rosterVars, callVars, elimVars >>
  /\ sync[r].pc = "settings_last_updated"
  /\ settings' = [settings EXCEPT !.stats_last_updated = sync[r].logId]
  /\ sync' = [sync EXCEPT ![r] = [@ EXCEPT !.pc = "settings_verified"]]
  /\ UNCHANGED faults
  /\ UNCHANGED << upstream, player_stats, stat_update_log, statsAfterRun >>

\* UPDATE settings SET value = 'true' WHERE key = 'stats_verified'
UpdateVerified(r) ==
  /\ UNCHANGED << rosterVars, callVars, elimVars >>
  /\ sync[r].pc = "settings_verified"
  /\ settings' = [settings EXCEPT !.stats_verified = TRUE]
  /\ sync' = [sync EXCEPT ![r] = [@ EXCEPT !.pc = "complete"]]
  /\ UNCHANGED faults
  /\ UNCHANGED << upstream, player_stats, stat_update_log, statsAfterRun >>

UpdateSettingsFails(r) ==
  /\ UNCHANGED << rosterVars, callVars, elimVars >>
  /\ faults < MaxFaults
  /\ faults' = faults + 1
  /\ sync[r].pc \in {"settings_last_updated", "settings_verified"}
  /\ sync' = [sync EXCEPT ![r] = CatchFatal(@)]
  /\ UNCHANGED << upstream, player_stats, stat_update_log, settings, statsAfterRun >>

\* completeUpdateLog(logId, playersUpdated, errors, status) and the return
CompleteUpdateLog(r) ==
  /\ UNCHANGED << rosterVars, callVars, elimVars >>
  /\ sync[r].pc \in {"complete", "catch"}
  /\ LET s == sync[r]
         ok == s.pc = "complete"
     IN  /\ stat_update_log' = [stat_update_log EXCEPT ![s.logId] =
               [status |-> IF ok THEN "completed" ELSE "failed",
                players_updated |-> s.playersUpdated, errors |-> s.errors]]
         /\ sync' = [sync EXCEPT ![r] = [@ EXCEPT !.pc = "done", !.result =
               [returned |-> TRUE, success |-> ok,
                playersUpdated |-> s.playersUpdated, errors |-> s.errors]]]
  /\ statsAfterRun' = [statsAfterRun EXCEPT ![r] = player_stats]
  /\ UNCHANGED faults
  /\ UNCHANGED << upstream, player_stats, settings >>

\* completeUpdateLog rejects: inside the try it lands in the catch, which
\* pushes the fatal error and calls completeUpdateLog(..., 'failed'); inside
\* the catch the rejection leaves updateAllPlayerStats, with no result and the
\* log row still 'running'
CompleteUpdateLogFails(r) ==
  /\ UNCHANGED << rosterVars, callVars, elimVars >>
  /\ faults < MaxFaults
  /\ faults' = faults + 1
  /\ sync[r].pc \in {"complete", "catch"}
  /\ sync' = [sync EXCEPT ![r] =
                IF @.pc = "complete" THEN CatchFatal(@)
                ELSE [@ EXCEPT !.pc = "rejected"]]
  /\ UNCHANGED << upstream, player_stats, stat_update_log, settings, statsAfterRun >>

\* POST /refresh of the standings route: UPDATE settings SET value = $1 WHERE
\* key = 'stats_last_updated' with the ISO string of the time of the request
\* as it is, not JSON.stringify'd; column value is JSONB and the string is no
\* JSON text, so the database rejects the statement, the catch answers 500
\* and stats_last_updated keeps its value.  No run is started.
RefreshLastUpdated ==
  /\ call = NoCall
  /\ call' = [fn |-> "refresh"]
  /\ ret' = [returned |-> TRUE, status |-> 500]
  /\ UNCHANGED << rosterVars, users, elimVars >>
  /\ UNCHANGED faults
  /\ UNCHANGED << upstream, player_stats, stat_update_log, settings, sync, statsAfterRun >>

NextSync ==
  \/ RefreshLastUpdated
  \/ \E r \in Runs :
    \/ StartUpdateLog(r)
    \/ QueryPlayers(r)
    \/ QueryPlayersFails(r)
    \/ FetchGameLog(r)
    \/ FetchGameLogFails(r)
    \/ UpsertStats(r)
    \/ UpsertStatsFails(r)
    \/ Sleep(r)
    \/ UpdateLastUpdated(r)
    \/ UpdateVerified(r)
    \/ UpdateSettingsFails(r)
    \/ CompleteUpdateLog(r)
    \/ CompleteUpdateLogFails(r)

SpecSync == InitSync /\ [][NextSync]_vars


(***************************************************************************)
(* Overlapping sync runs: the cron callbacks and POST /refresh call        *)
(* updateAllPlayerStats without waiting for a run in progress              *)
(***************************************************************************)
\* the upstream records one more game of a player between two requests
PlayGame(p) ==
  /\ UNCHANGED << rosterVars, callVars, elimVars >>
  /\ Len(upstream[p].gameLog) < MaxGames
  /\ \E game \in (IF players[p].position = "goalie" THEN GoalieGames ELSE SkaterGames) \ {MalformedGame} :
       upstream' = [upstream EXCEPT ![p] =
                      [found |-> TRUE, gameLog |-> Append(upstream[p].gameLog, game)]]
  /\ UNCHANGED faults
  /\ UNCHANGED << player_stats, stat_update_log, settings, sync, statsAfterRun >>

\* the season starts with at most one game played by each player
InitSyncOverlap ==
  /\ InitSync
  /\ \A p \in ActiveIds : Len(upstream[p].gameLog) <= 1

NextSyncOverlap ==
  \/ \E r \in Runs :
       \/ StartUpdateLog(r)
       \/ QueryPlayers(r)
       \/ FetchGameLog(r)
       \/ UpsertStats(r)
       \/ Sleep(r)
       \/ UpdateLastUpdated(r)
       \/ UpdateVerified(r)
       \/ CompleteUpdateLog(r)
  \/ \E p \in ActiveIds : PlayGame(p)

SpecSyncOverlap == InitSyncOverlap /\ [][NextSyncOverlap]_vars


(***************************************************************************)
(* The scheduled job runStatsUpdate: updateAllPlayerStats, then            *)
(* updateEliminatedTeams; the operator's PUT /settings; a stopped process  *)
(***************************************************************************)
\* team ids of the upstream (series.winningTeamId, topSeed.id, ...)
TeamId == [WST |-> 1, EST |-> 2, OUT |-> 3]

Seed(abbrev) == [id |-> TeamId[abbrev], abbrev |-> abbrev]

\* one series of the bracket; winningTeamId / losingTeamId are 0 while the
\* series is being played
Series(round, top, bottom, winner, loser) ==
  [round |-> round, topSeed |-> Seed(top), bottomSeed |-> Seed(bottom),
   winningTeamId |-> winner, losingTeamId |-> loser]

\* a round-1 series won by the top seed, the same series won by the bottom
\* seed, a round-2 series still being played and a round-2 series won by the
\* bottom seed
BracketSeries ==
  { Series(1, "WST", "OUT", TeamId["WST"], TeamId["OUT"]),
    Series(1, "WST", "OUT", TeamId["OUT"], TeamId["WST"]),
    Series(2, "EST", "WST", 0, 0),
    Series(2, "EST", "WST", TeamId["WST"], TeamId["EST"]) }

Brackets ==
  { NoBracket } \cup
  { [hasSeries |-> TRUE, series |-> l] : l \in SeqsUpTo(BracketSeries, MaxSeries) }

\* series.winningTeamId && series.losingTeamId
SeriesCompleted(series) == series.winningTeamId # 0 /\ series.losingTeamId # 0

\* const losingTeam = series.bottomSeed?.abbrev || series.topSeed?.abbrev
LosingTeam(series) ==
  IF series.bottomSeed.abbrev # "" THEN series.bottomSeed.abbrev ELSE series.topSeed.abbrev

\* a mutation of CatchBracketError: the error is thrown on to the caller
CatchBracketErrorRethrows(e) == [e EXCEPT !.pc = "returned", !.threw = TRUE]

\* catch (error) { console.error('Error updating eliminated teams:', ...) }
CatchBracketError(e) == [e EXCEPT !.pc = "returned", !.threw = FALSE]

\* end of one iteration of `for (const series of bracket.series)`
NextSeries(e) ==
  IF e.idx < Len(bracket.series) THEN [e EXCEPT !.idx = @ + 1, !.pc = "series"]
  ELSE [e EXCEPT !.pc = "returned"]

\* runStatsUpdate: await nhlApi.updateEliminatedTeams() after the result of
\* updateAllPlayerStats is there
StartEliminatedTeams(r) ==
  /\ UNCHANGED << syncVars, faults, rosterVars, callVars >>
  /\ sync[r].pc = "done" /\ elim[r].pc = "idle"
  /\ elim' = [elim EXCEPT ![r] = [@ EXCEPT !.pc = "fetch"]]
  /\ UNCHANGED << bracket, team_state >>

\* axios.get(.../playoff-bracket/...) answers; if (!bracket?.series) return
FetchBracket(r) ==
  /\ UNCHANGED << syncVars, faults, rosterVars, callVars >>
  /\ elim[r].pc = "fetch"
  /\ elim' = [elim EXCEPT ![r] =
                IF ~bracket.hasSeries THEN [@ EXCEPT !.pc = "returned"]
                ELSE NextSeries(@)]
  /\ UNCHANGED << bracket, team_state >>

FetchBracketFails(r) ==
  /\ UNCHANGED << syncVars, rosterVars, callVars >>
  /\ faults < MaxFaults
  /\ faults' = faults + 1
  /\ elim[r].pc = "fetch"
  /\ elim' = [elim EXCEPT ![r] = CatchBracketError(@)]
  /\ UNCHANGED << bracket, team_state >>

\* one iteration of the loop: UPDATE teams SET is_eliminated = true,
\* eliminated_round = $1 WHERE abbrev = $2 for a completed series
EliminateTeam(r) ==
  /\ UNCHANGED << syncVars, faults, rosterVars, callVars >>
  /\ elim[r].pc = "series"
  /\ LET series == bracket.series[elim[r].idx]
         losingTeam == LosingTeam(series)
     IN  team_state' =
           IF SeriesCompleted(series) /\ losingTeam \in DOMAIN team_state
           THEN [team_state EXCEPT ![losingTeam] =
                   [is_eliminated |-> TRUE, eliminated_round |-> series.round]]
           ELSE team_state
  /\ elim' = [elim EXCEPT ![r] = NextSeries(@)]
  /\ UNCHANGED bracket

EliminateTeamFails(r) ==
  /\ UNCHANGED << syncVars, rosterVars, callVars >>
  /\ faults < MaxFaults
  /\ faults' = faults + 1
  /\ elim[r].pc = "series"
  /\ SeriesCompleted(bracket.series[elim[r].idx])
  /\ elim' = [elim EXCEPT ![r] = CatchBracketError(@)]
  /\ UNCHANGED << bracket, team_state >>

\* the process is stopped between two statements of updateAllPlayerStats
Interrupt(r) ==
  /\ UNCHANGED << rosterVars, callVars, elimVars >>
  /\ sync[r].pc \notin {"idle", "done", "halted", "rejected"}
  /\ sync' = [sync EXCEPT ![r] = [@ EXCEPT !.halted = sync[r].pc, !.pc = "halted"]]
  /\ UNCHANGED faults
  /\ UNCHANGED << upstream, player_stats, stat_update_log, settings, statsAfterRun >>

\* PUT /settings with isVerified in the body
PutSettings(isVerified) ==
  /\ UNCHANGED << rosterVars, callVars, elimVars >>
  /\ settings.stats_verified # isVerified
  /\ settings' = [settings EXCEPT !.stats_verified = isVerified]
  /\ UNCHANGED faults
  /\ UNCHANGED << upstream, player_stats, stat_update_log, sync, statsAfterRun >>

\* the job is run against any of Brackets; every player has played at most
\* one game and the first player at least one
InitStatsUpdate ==
  /\ active_players = TwoActive
  /\ upstream \in [ActiveIds -> UNION { UpstreamFor(p) : p \in ActiveIds }]
  /\ \A p \in ActiveIds : upstream[p] \in UpstreamFor(p) /\ Len(upstream[p].gameLog) <= 1
  /\ Len(upstream[ActivePlayers[1]].gameLog) = 1
  /\ player_stats = NoStats
  /\ stat_update_log = << >>
  /\ settings = [stats_last_updated |-> 0, stats_verified |-> FALSE]
  /\ sync = [r \in Runs |-> IdleSync]
  /\ statsAfterRun = [r \in Runs |-> NoStats]
  /\ faults = 0
  /\ RosterTablesEmpty
  /\ CallIdle
  /\ bracket \in Brackets
  /\ team_state = NoneEliminated
  /\ elim = [r \in Runs |-> IdleElim]

NextStatsUpdate ==
  \E r \in Runs :
    \/ StartUpdateLog(r)
    \/ QueryPlayers(r)
    \/ FetchGameLog(r)
    \/ UpsertStats(r)
    \/ Sleep(r)
    \/ UpdateLastUpdated(r)
    \/ UpdateVerified(r)
    \/ CompleteUpdateLog(r)
    \/ StartEliminatedTeams(r)
    \/ FetchBracket(r)
    \/ FetchBracketFails(r)
    \/ EliminateTeam(r)
    \/ EliminateTeamFails(r)

SpecStatsUpdate == InitStatsUpdate /\ [][NextStatsUpdate]_vars

\* a sync that the process may stop at any statement, and the operator; every
\* player has played one game
InitSyncHalted ==
  /\ InitSync
  /\ \A p \in ActiveIds : Len(upstream[p].gameLog) = 1

NextSyncHalted ==
  \/ NextSync
  \/ \E r \in Runs : Interrupt(r)
  \/ \E isVerified \in BOOLEAN : PutSettings(isVerified)

SpecSyncHalted == InitSyncHalted /\ [][NextSyncHalted]_vars


(***************************************************************************)
(* Roster routes: PUT /:round and POST /:round/submit                      *)
(*   "plain" is routes/rosters.js, every statement auto-committed;         *)
(*   "tx" is the variant that saves inside BEGIN ... COMMIT.               *)
(***************************************************************************)
\* where the two files differ in the checks they make
SaveChecksSubmitted == variant = "plain"
SubmitChecksRound == variant = "plain"
SubmitChecksSubmitted == variant = "plain"

Respond(q, r) == [q EXCEPT !.pc = "done", !.resp = r, !.tx = NoTx]

\* the transactional save is about to `await client.query('ROLLBACK')` and
\* then to answer r: its transaction stays open until that statement ran
Rollback(q, r) == [q EXCEPT !.pc = "rollback", !.resp = r]

Tables == [rosters |-> rosters, roster_players |-> roster_players, tiebreakers |-> tiebreakers]

OthersInFlight(i) == { j \in Slots \ {i} : req[j].pc \notin {"idle", "done"} }

\* rows of rosters for (user_id, round), as a statement of request q sees them
RostersOf(q, visible) == { r \in visible : r.user_id = q.user /\ r.round = q.round }

\* gen_random id of a new rosters row: one no row uses
FreshRosterId ==
  LET used == { r.id : r \in rosters \cup UNION { req[j].tx.rosters : j \in Slots } }
  IN  Min({ n \in 1..(Cardinality(used) + 1) : n \notin used })

SelectionRow(q, id) ==
  [roster_id |-> q.rosterId, player_id |-> id, is_star |-> IsStar(q.body.stars, id)]

TiebreakerRow(q) ==
  [user_id |-> q.user, round |-> q.round, q1 |-> CHOOSE t \in q.body.tiebreakers : TRUE]

\* INSERT INTO tiebreakers ... ON CONFLICT (user_id, round) DO UPDATE
UpsertTie(table, row) ==
  { t \in table : ~(t.user_id = row.user_id /\ t.round = row.round) } \cup {row}

\* a new request arrives on connection i: the handler runs up to its first await
BeginSave(i, reuse, u, round, body) ==
  /\ req[i].pc = "idle" \/ (reuse /\ req[i].pc = "done")
  /\ LET q == [IdleReq EXCEPT !.kind = "save", !.user = u, !.round = round,
                              !.body = body, !.before = Tables]
     IN  req' = [req EXCEPT ![i] =
                   IF round < 1 \/ round > 3 THEN Respond(q, "invalid_round")
                   ELSE [q EXCEPT !.pc = "deadline"]]
  /\ UNCHANGED << active_players, variant, now, pick_deadline, team_qualifications, rosters, roster_players, tiebreakers >>
  /\ UNCHANGED << syncVars, faults, callVars, elimVars >>

BeginSubmit(i, reuse, u, round) ==
  /\ req[i].pc = "idle" \/ (reuse /\ req[i].pc = "done")
  /\ LET q == [IdleReq EXCEPT !.kind = "submit", !.user = u, !.round = round,
                              !.before = Tables]
     IN  req' = [req EXCEPT ![i] =
                   IF SubmitChecksRound /\ (round < 1 \/ round > 3)
                   THEN Respond(q, "invalid_round")
                   ELSE [q EXCEPT !.pc = "deadline"]]
  /\ UNCHANGED << active_players, variant, now, pick_deadline, team_qualifications, rosters, roster_players, tiebreakers >>
  /\ UNCHANGED << syncVars, faults, callVars, elimVars >>

\* SELECT pick_deadline FROM rounds WHERE round_number = $1, then the two tests
CheckDeadline(i) ==
  /\ req[i].pc = "deadline"
  /\ LET q == req[i]
         noRow == q.round \notin DOMAIN pick_deadline
     IN  req' = [req EXCEPT ![i] =
                   IF noRow \/ pick_deadline[q.round] = {} THEN Respond(q, "no_deadline")
                   ELSE IF \E d \in pick_deadline[q.round] : now > d
                        THEN Respond([q EXCEPT !.nowAtCheck = now], "locked")
                   ELSE [q EXCEPT !.nowAtCheck = now, !.pc = "select_roster"]]
  /\ UNCHANGED << active_players, variant, now, pick_deadline, team_qualifications, rosters, roster_players, tiebreakers >>
  /\ UNCHANGED << syncVars, faults, callVars, elimVars >>

\* the synchronous code after the roster id is known: flatten the selections
AfterRosterReady(q) ==
  IF Len(AllPlayers(q.body.selections)) = 0 THEN Respond(q, "saved_empty")
  ELSE [q EXCEPT !.pc = "select_players"]

\* after the last INSERT INTO roster_players of the transactional save
AfterInserts(q) ==
  IF q.body.tiebreakers # {} THEN [q EXCEPT !.pc = "tiebreakers"]
  ELSE [q EXCEPT !.pc = "commit"]

\* SELECT id, is_submitted FROM rosters WHERE user_id = $1 AND round = $2
SelectRoster(i) ==
  /\ variant = "plain" /\ req[i].kind = "save" /\ req[i].pc = "select_roster"
  /\ LET q == req[i]
         existing == RostersOf(q, rosters)
     IN  req' = [req EXCEPT ![i] =
                   IF existing = {} THEN [q EXCEPT !.pc = "insert_roster"]
                   ELSE LET r == CHOOSE r \in existing : TRUE
                        IN  IF SaveChecksSubmitted /\ r.is_submitted
                            THEN Respond(q, "already_submitted")
                            ELSE [q EXCEPT !.rosterId = r.id, !.pc = "delete"]]
  /\ UNCHANGED << active_players, variant, now, pick_deadline, team_qualifications, rosters, roster_players, tiebreakers >>
  /\ UNCHANGED << syncVars, faults, callVars, elimVars >>

\* a mutation of UniqueRoster: the table has no UNIQUE(user_id, round)
UniqueRosterDropped(q, visible) == TRUE

\* UNIQUE(user_id, round) of table rosters
UniqueRoster(q, visible) == RostersOf(q, visible) = {}

\* INSERT INTO rosters (user_id, round) VALUES ($1, $2) RETURNING id
InsertRoster(i) ==
  /\ variant = "plain" /\ req[i].pc = "insert_roster"
  /\ LET q == req[i]
         id == FreshRosterId
     IN  IF UniqueRoster(q, rosters)
         THEN /\ rosters' = rosters \cup
                   {[id |-> id, user_id |-> q.user, round |-> q.round, is_submitted |-> FALSE]}
              /\ req' = [req EXCEPT ![i] = AfterRosterReady([q EXCEPT !.rosterId = id])]
         ELSE /\ req' = [req EXCEPT ![i] = Respond(q, "duplicate")]
              /\ UNCHANGED rosters
  /\ UNCHANGED << active_players, variant, now, pick_deadline, team_qualifications, roster_players, tiebreakers >>
  /\ UNCHANGED << syncVars, faults, callVars, elimVars >>

\* DELETE FROM roster_players WHERE roster_id = $1
DeleteSelections(i) ==
  /\ variant = "plain" /\ req[i].pc = "delete"
  /\ roster_players' = { rp \in roster_players : rp.roster_id # req[i].rosterId }
  /\ req' = [req EXCEPT ![i] = AfterRosterReady(@)]
  /\ UNCHANGED << active_players, variant, now, pick_deadline, team_qualifications, rosters, tiebreakers >>
  /\ UNCHANGED << syncVars, faults, callVars, elimVars >>

\* SELECT p.id, p.cost ... FROM players p ... WHERE p.id = ANY($1::int[]):
\* players.id is a UUID column, so the database rejects the statement whatever
\* the ids are, and the catch answers 500 with the rosters row that was
\* inserted, or the deletion of the selections, left in the tables.  The cap
\* test, the inserts of the selections and the tiebreakers upsert that follow
\* the statement are never reached.
SelectPlayers(i) ==
  /\ variant = "plain" /\ req[i].pc = "select_players"
  /\ req' = [req EXCEPT ![i] = Respond(@, "error")]
  /\ UNCHANGED << active_players, variant, now, pick_deadline, team_qualifications, rosters, roster_players, tiebreakers >>
  /\ UNCHANGED << syncVars, faults, callVars, elimVars >>

\* UNIQUE(roster_id, player_id) of table roster_players
UniqueSelection(row, visible) ==
  ~ \E rp \in visible : rp.roster_id = row.roster_id /\ rp.player_id = row.player_id

\* the statement a handler awaits rejects (statement error, or the connection
\* is lost): plain and submit catch and answer 500, with what was written so
\* far left in the tables; the transactional save catches, awaits ROLLBACK
\* and then answers 500, unless the connection is lost, in which case the
\* ROLLBACK of the catch rejects too, no answer is sent and the server drops
\* the open transaction.  A ROLLBACK rejects only with the connection.
StatementFails(i, lost) ==
  /\ req[i].pc \notin {"idle", "done"}
  /\ lost => (variant = "tx" /\ req[i].kind = "save")
  /\ req[i].pc = "rollback" => lost
  /\ faults < MaxStatementFaults
  /\ faults' = faults + 1
  /\ req' = [req EXCEPT ![i] =
               LET q == [@ EXCEPT !.failedAt = req[i].pc]
               IN  IF lost THEN Respond(q, "unanswered")
                   ELSE IF variant = "tx" /\ q.kind = "save" THEN Rollback(q, "error")
                   ELSE Respond(q, "error")]
  /\ UNCHANGED << active_players, variant, now, pick_deadline, team_qualifications, rosters, roster_players, tiebreakers >>
  /\ UNCHANGED << syncVars, callVars, elimVars >>

\* const client = await pool.connect() of the transactional save rejects: the
\* call is made before the try, so the handler rejects with nothing caught,
\* no answer is sent and no statement was run, whatever the round
ConnectFails(i, reuse, u, round, body) ==
  /\ variant = "tx"
  /\ req[i].pc = "idle" \/ (reuse /\ req[i].pc = "done")
  /\ faults < MaxStatementFaults
  /\ faults' = faults + 1
  /\ req' = [req EXCEPT ![i] =
               Respond([IdleReq EXCEPT !.kind = "save", !.user = u, !.round = round,
                                       !.body = body, !.before = Tables,
                                       !.failedAt = "connect"],
                       "unanswered")]
  /\ UNCHANGED << active_players, variant, now, pick_deadline, team_qualifications, rosters, roster_players, tiebreakers >>
  /\ UNCHANGED << syncVars, callVars, elimVars >>

\* submit: SELECT id, is_submitted FROM rosters WHERE user_id = $1 AND round = $2
SelectRosterForSubmit(i) ==
  /\ req[i].kind = "submit" /\ req[i].pc = "select_roster"
  /\ LET q == req[i]
         existing == RostersOf(q, rosters)
     IN  req' = [req EXCEPT ![i] =
                   IF existing = {} THEN Respond(q, "no_roster")
                   ELSE LET r == CHOOSE r \in existing : TRUE
                        IN  IF SubmitChecksSubmitted /\ r.is_submitted
                            THEN Respond(q, "already_submitted")
                            ELSE [q EXCEPT !.rosterId = r.id, !.pc = "select_selections"]]
  /\ UNCHANGED << active_players, variant, now, pick_deadline, team_qualifications, rosters, roster_players, tiebreakers >>
  /\ UNCHANGED << syncVars, faults, callVars, elimVars >>

\* submit: SELECT p.position, t.conference, rp.is_star ... WHERE rp.roster_id = $1
SelectSelections(i) ==
  /\ req[i].kind = "submit" /\ req[i].pc = "select_selections"
  /\ LET q == req[i]
         rows == { rp \in roster_players : rp.roster_id = q.rosterId }
     IN  req' = [req EXCEPT ![i] =
                   IF IsComplete(rows) THEN [q EXCEPT !.pc = "update_roster"]
                   ELSE Respond(q, "incomplete")]
  /\ UNCHANGED << active_players, variant, now, pick_deadline, team_qualifications, rosters, roster_players, tiebreakers >>
  /\ UNCHANGED << syncVars, faults, callVars, elimVars >>

\* submit: UPDATE rosters SET is_submitted = true, submitted_at = NOW() WHERE id = $1
UpdateSubmitted(i) ==
  /\ req[i].kind = "submit" /\ req[i].pc = "update_roster"
  /\ rosters' = { IF r.id = req[i].rosterId THEN [r EXCEPT !.is_submitted = TRUE] ELSE r :
                    r \in rosters }
  /\ req' = [req EXCEPT ![i] = Respond(@, "submitted")]
  /\ UNCHANGED << active_players, variant, now, pick_deadline, team_qualifications, roster_players, tiebreakers >>
  /\ UNCHANGED << syncVars, faults, callVars, elimVars >>

(***************************************************************************)
(* The transactional save.  Statements run at READ COMMITTED: each sees    *)
(* the committed rows and the rows its own transaction wrote; a statement  *)
(* that needs a row another open transaction deleted, or a key another     *)
(* open transaction inserted, waits until that transaction ends.  BEGIN    *)
(* changes nothing a statement can see and is part of the deadline step.   *)
(***************************************************************************)
OthersDeleted(i) == UNION { req[j].tx.deleted : j \in OthersInFlight(i) }
OthersInserted(i) == UNION { req[j].tx.inserted : j \in OthersInFlight(i) }
OthersRosters(i) == UNION { req[j].tx.rosters : j \in OthersInFlight(i) }

\* SELECT id FROM rosters WHERE user_id = $1 AND round = $2
TxSelectRoster(i) ==
  /\ variant = "tx" /\ req[i].kind = "save" /\ req[i].pc = "select_roster"
  /\ LET q == req[i]
         existing == RostersOf(q, rosters)
     IN  req' = [req EXCEPT ![i] =
                   IF existing = {} THEN [q EXCEPT !.pc = "insert_roster"]
                   ELSE [q EXCEPT !.rosterId = (CHOOSE r \in existing : TRUE).id,
                                  !.pc = "delete"]]
  /\ UNCHANGED << active_players, variant, now, pick_deadline, team_qualifications, rosters, roster_players, tiebreakers >>
  /\ UNCHANGED << syncVars, faults, callVars, elimVars >>

\* INSERT INTO rosters (user_id, round) VALUES ($1, $2) RETURNING id
TxInsertRoster(i) ==
  /\ variant = "tx" /\ req[i].pc = "insert_roster"
  /\ RostersOf(req[i], OthersRosters(i)) = {}
  /\ LET q == req[i]
         id == FreshRosterId
         row == [id |-> id, user_id |-> q.user, round |-> q.round, is_submitted |-> FALSE]
     IN  req' = [req EXCEPT ![i] =
                   IF UniqueRoster(q, rosters)
                   THEN [q EXCEPT !.rosterId = id, !.tx.rosters = {row}, !.pc = "delete"]
                   ELSE Rollback(q, "error")]
  /\ UNCHANGED << active_players, variant, now, pick_deadline, team_qualifications, rosters, roster_players, tiebreakers >>
  /\ UNCHANGED << syncVars, faults, callVars, elimVars >>

\* the synchronous code after the DELETE: collect the player ids
TxAfterDelete(q) ==
  IF Len(AllPlayers(q.body.selections)) > 0 THEN [q EXCEPT !.pc = "check_salary"]
  ELSE AfterInserts(q)

\* DELETE FROM roster_players WHERE roster_id = $1
TxDeleteSelections(i) ==
  /\ variant = "tx" /\ req[i].pc = "delete"
  /\ LET q == req[i]
         targets == { rp \in roster_players : rp.roster_id = q.rosterId }
     IN  req' = [req EXCEPT ![i] =
                   IF targets \cap OthersDeleted(i) = {}
                   THEN TxAfterDelete([q EXCEPT !.tx.deleted = targets])
                   ELSE [q EXCEPT !.targets = targets, !.pc = "delete_wait"]]
  /\ UNCHANGED << active_players, variant, now, pick_deadline, team_qualifications, rosters, roster_players, tiebreakers >>
  /\ UNCHANGED << syncVars, faults, callVars, elimVars >>

\* the DELETE resumes when the rows it waits for are unlocked: the rows a
\* committed transaction removed have left req[i].targets (TxCommit) and are
\* skipped, also when that transaction inserted rows with the same values,
\* which are new rows outside the statement's snapshot
TxDeleteResumes(i) ==
  /\ variant = "tx" /\ req[i].pc = "delete_wait"
  /\ req[i].targets \cap OthersDeleted(i) = {}
  /\ req' = [req EXCEPT ![i] =
               TxAfterDelete([@ EXCEPT !.tx.deleted = req[i].targets, !.targets = {}])]
  /\ UNCHANGED << active_players, variant, now, pick_deadline, team_qualifications, rosters, roster_players, tiebreakers >>
  /\ UNCHANGED << syncVars, faults, callVars, elimVars >>

\* SELECT COALESCE(SUM(cost), 0) ... and the cap test; over the cap the
\* handler goes on to await ROLLBACK before it answers 400
TxCheckSalary(i) ==
  /\ variant = "tx" /\ req[i].pc = "check_salary"
  /\ LET q == req[i]
     IN  req' = [req EXCEPT ![i] =
                   IF OverCap(TotalCost(AllPlayers(q.body.selections)))
                   THEN Rollback(q, "over_cap")
                   ELSE [q EXCEPT !.pc = "check_qualified"]]
  /\ UNCHANGED << active_players, variant, now, pick_deadline, team_qualifications, rosters, roster_players, tiebreakers >>
  /\ UNCHANGED << syncVars, faults, callVars, elimVars >>

\* SELECT COUNT(*) as invalid_count ... and its test; with a player of a
\* team that is not qualified the handler goes on to await ROLLBACK before it
\* answers 400
TxCheckQualified(i) ==
  /\ variant = "tx" /\ req[i].pc = "check_qualified"
  /\ LET q == req[i]
         ids == AllPlayers(q.body.selections)
     IN  req' = [req EXCEPT ![i] =
                   IF InvalidCount(ids, q.round) > 0 THEN Rollback(q, "unqualified")
                   ELSE [q EXCEPT !.rows = ids, !.k = 1, !.pc = "insert"]]
  /\ UNCHANGED << active_players, variant, now, pick_deadline, team_qualifications, rosters, roster_players, tiebreakers >>
  /\ UNCHANGED << syncVars, faults, callVars, elimVars >>

\* INSERT INTO roster_players ... inside the transaction
TxInsertSelection(i) ==
  /\ variant = "tx" /\ req[i].pc = "insert"
  /\ LET q == req[i]
         row == SelectionRow(q, q.rows[q.k])
         visible == (roster_players \ q.tx.deleted) \cup q.tx.inserted
     IN  /\ UniqueSelection(row, OthersInserted(i))
         /\ req' = [req EXCEPT ![i] =
                      IF row.player_id \notin PlayerIds \/ ~UniqueSelection(row, visible)
                      THEN Rollback(q, "error")
                      ELSE LET q1 == [q EXCEPT !.tx.inserted = @ \cup {row}]
                           IN  IF q.k < Len(q.rows) THEN [q1 EXCEPT !.k = @ + 1]
                               ELSE AfterInserts(q1)]
  /\ UNCHANGED << active_players, variant, now, pick_deadline, team_qualifications, rosters, roster_players, tiebreakers >>
  /\ UNCHANGED << syncVars, faults, callVars, elimVars >>

\* rows of tiebreakers another open transaction wrote for the key of row
TiesLockedByOthers(i, row) ==
  { t \in UNION { req[j].tx.ties : j \in OthersInFlight(i) } :
      t.user_id = row.user_id /\ t.round = row.round }

\* INSERT INTO tiebreakers ... ON CONFLICT (user_id, round) DO UPDATE inside
\* the transaction: it waits while another open transaction holds an
\* uncommitted row of the same (user_id, round)
TxUpsertTiebreakers(i) ==
  /\ variant = "tx" /\ req[i].pc = "tiebreakers"
  /\ TiesLockedByOthers(i, TiebreakerRow(req[i])) = {}
  /\ req' = [req EXCEPT ![i] =
               [@ EXCEPT !.tx.ties = {TiebreakerRow(req[i])}, !.pc = "commit"]]
  /\ UNCHANGED << active_players, variant, now, pick_deadline, team_qualifications, rosters, roster_players, tiebreakers >>
  /\ UNCHANGED << syncVars, faults, callVars, elimVars >>

\* await client.query('ROLLBACK') of a refusal or of the catch, then the
\* answer: nothing the transaction wrote is kept and its locks are released
TxRollback(i) ==
  /\ variant = "tx" /\ req[i].pc = "rollback"
  /\ req' = [req EXCEPT ![i] = Respond(@, req[i].resp)]
  /\ UNCHANGED << active_players, variant, now, pick_deadline, team_qualifications, rosters, roster_players, tiebreakers >>
  /\ UNCHANGED << syncVars, faults, callVars, elimVars >>

\* COMMIT and res.json({ message: 'Roster saved', rosterId })
TxCommit(i) ==
  /\ variant = "tx" /\ req[i].pc = "commit"
  /\ LET t == req[i].tx
     IN  /\ rosters' = rosters \cup t.rosters
         /\ roster_players' = (roster_players \ t.deleted) \cup t.inserted
         /\ tiebreakers' = IF t.ties = {} THEN tiebreakers
                           ELSE UpsertTie(tiebreakers, CHOOSE r \in t.ties : TRUE)
  /\ req' = [j \in Slots |->
               IF j = i THEN Respond(req[i], "saved")
               ELSE [req[j] EXCEPT !.targets = @ \ req[i].tx.deleted]]
  /\ UNCHANGED << active_players, variant, now, pick_deadline, team_qualifications >>
  /\ UNCHANGED << syncVars, faults, callVars, elimVars >>

\* time passes
Tick ==
  /\ now < MaxTime
  /\ now' = now + 1
  /\ UNCHANGED << active_players, variant, pick_deadline, team_qualifications, rosters, roster_players, tiebreakers, req >>
  /\ UNCHANGED << syncVars, faults, callVars, elimVars >>

\* the rounds and values the admin requests are sent with: a time already
\* past and the end of the clock; the model's teams in a posted list
AdminRounds == {1}
AdminDeadlines == {-1, MaxTime}
QualifiedLists == {{"WST", "EST"}, {"EST", "OUT"}}

\* the roster requests that began before an admin request changed the
\* deadline or the qualified teams of their round: they are marked
AdminChanged(round, changed) ==
  [j \in Slots |->
     IF changed /\ req[j].pc # "idle" /\ req[j].round = round
     THEN [req[j] EXCEPT !.adminChanged = TRUE]
     ELSE req[j]]

\* PUT /rounds/:roundNumber/deadline by an admin, handled on its own
\* connection whatever the roster requests are doing:
\* UPDATE rounds SET pick_deadline = $1 WHERE round_number = $2
SetDeadline(round, d) ==
  /\ round \in DOMAIN pick_deadline
  /\ pick_deadline' = [pick_deadline EXCEPT ![round] = {d}]
  /\ req' = AdminChanged(round, pick_deadline[round] # {d})
  /\ UNCHANGED << active_players, variant, now, team_qualifications, rosters, roster_players, tiebreakers >>
  /\ UNCHANGED << syncVars, faults, callVars, elimVars >>

\* POST /rounds/:roundNumber/qualified-teams by an admin: BEGIN, DELETE FROM
\* team_qualifications WHERE round_number = $1, INSERT of the posted teams,
\* COMMIT; teamList is the part of the posted list that names teams of the model
SetQualifiedTeams(round, teamList) ==
  /\ round \in DOMAIN team_qualifications
  /\ team_qualifications' = [team_qualifications EXCEPT ![round] = teamList]
  /\ req' = AdminChanged(round, team_qualifications[round] # teamList)
  /\ UNCHANGED << active_players, variant, now, pick_deadline, rosters, roster_players, tiebreakers >>
  /\ UNCHANGED << syncVars, faults, callVars, elimVars >>

\* the steps of the request on connection i
RosterStep(i, reuse, rounds, bodies) ==
  \/ \E u \in Users, round \in rounds, body \in bodies :
        BeginSave(i, reuse, u, round, body)
  \/ \E u \in Users, round \in rounds : BeginSubmit(i, reuse, u, round)
  \/ CheckDeadline(i)
  \/ SelectRoster(i)
  \/ InsertRoster(i)
  \/ DeleteSelections(i)
  \/ SelectPlayers(i)
  \/ TxSelectRoster(i)
  \/ TxInsertRoster(i)
  \/ TxDeleteSelections(i)
  \/ TxCheckSalary(i)
  \/ TxCheckQualified(i)
  \/ TxInsertSelection(i)
  \/ TxUpsertTiebreakers(i)
  \/ TxRollback(i)
  \/ TxCommit(i)
  \/ SelectRosterForSubmit(i)
  \/ SelectSelections(i)
  \/ UpdateSubmitted(i)

\* the sync side while only the roster routes are exercised
SyncIdle ==
  /\ active_players = TwoActive
  /\ upstream = [p \in ActiveIds |-> [found |-> FALSE, gameLog |-> << >>]]
  /\ player_stats = NoStats
  /\ stat_update_log = << >>
  /\ settings = [stats_last_updated |-> 0, stats_verified |-> FALSE]
  /\ sync = [r \in Runs |-> IdleSync]
  /\ statsAfterRun = [r \in Runs |-> NoStats]
  /\ faults = 0

\* the roster of user 1 for round 1 as the transactional save of FullBody
\* commits it (TxCommit)
SavedFullRoster ==
  /\ rosters = {[id |-> 1, user_id |-> 1, round |-> 1, is_submitted |-> FALSE]}
  /\ roster_players =
       { [roster_id |-> 1, player_id |-> id, is_star |-> IsStar(FullBody.stars, id)] :
           id \in SeqRange(AllPlayers(FullBody.selections)) }

\* the tables right after /api/migrate: the four rounds with their deadlines,
\* no qualified team yet, and empty roster tables; or, for the route file
\* without a transaction, the same database once the admin has posted the
\* qualified teams and the transactional route file has served it and
\* committed a roster (the two files are written for one schema, and only
\* the transactional one can insert a selection)
InitRoster ==
  /\ SyncIdle
  /\ CallIdle
  /\ ElimIdle
  /\ variant \in {"plain", "tx"}
  /\ now = 0
  /\ pick_deadline = MigratedDeadlines
  /\ \/ /\ team_qualifications = NoQualifications
        /\ rosters = {}
        /\ roster_players = {}
     \/ /\ variant = "plain"
        /\ team_qualifications = PlayoffTeams
        /\ SavedFullRoster
  /\ tiebreakers = {}
  /\ req = [i \in Slots |-> IdleReq]

\* requests arrive one after the other on one connection
NextRoster ==
  \/ Tick
  \/ RosterStep("a", TRUE, PlayedRounds, SaveBodies)
  \/ RosterStep("a", TRUE, RefusedRounds, {OverUnqualifiedBody})
  \/ \E lost \in BOOLEAN : StatementFails("a", lost)
  \/ \E u \in Users, round \in PlayedRounds, body \in SaveBodies :
       ConnectFails("a", TRUE, u, round, body)
  \/ \E u \in Users, round \in RefusedRounds :
       ConnectFails("a", TRUE, u, round, OverUnqualifiedBody)
  \/ \E round \in AdminRounds, d \in AdminDeadlines : SetDeadline(round, d)
  \/ \E round \in AdminRounds, teamList \in QualifiedLists :
       SetQualifiedTeams(round, teamList)

SpecRoster == InitRoster /\ [][NextRoster]_vars

\* bodies and rounds of the requests that are run against each other
ConcurrentBodies == { FullBody, ExtraBody, IncompleteBody, OverBody }
ConcurrentRounds == {1}

\* before the deadline of round 1, the admin has posted the qualified teams;
\* with no roster yet or with one the transactional route committed
InitRosterConcurrent ==
  /\ SyncIdle
  /\ CallIdle
  /\ ElimIdle
  /\ variant \in {"plain", "tx"}
  /\ now = 0
  /\ pick_deadline = MigratedDeadlines
  /\ team_qualifications = PlayoffTeams
  /\ (rosters = {} /\ roster_players = {}) \/ SavedFullRoster
  /\ tiebreakers = {}
  /\ req = [i \in Slots |-> IdleReq]

\* two requests, one per connection, interleave at their awaits
NextRosterConcurrent ==
  \E i \in Slots :
    \/ RosterStep(i, FALSE, ConcurrentRounds, ConcurrentBodies)
    \/ TxDeleteResumes(i)

SpecRosterConcurrent == InitRosterConcurrent /\ [][NextRosterConcurrent]_vars

(***************************************************************************)
(* Leaderboard: VIEW leaderboard and GET /standings                        *)
(*   ORDER BY leaves the order of rows with equal totals open, so a        *)
(*   response is kept as the set of rows it lists.                         *)
(***************************************************************************)
STANDINGS_LIMIT == 100

RECURSIVE SumFn(_)
SumFn(f) ==
  IF DOMAIN f = {} THEN 0
  ELSE LET x == CHOOSE y \in DOMAIN f : TRUE
       IN  f[x] + SumFn([y \in DOMAIN f \ {x} |-> f[y]])

\* a mutation of StatOf: the join ignores the round and reads the round-1 row
StatOfRoundOne(player_id, round) ==
  IF << player_id, 1 >> \in DOMAIN player_stats /\ player_stats[<< player_id, 1 >>].present
  THEN { player_stats[<< player_id, 1 >>] }
  ELSE {}

\* LEFT JOIN player_stats ps ON p.id = ps.player_id AND r.round = ps.round:
\* {} when no row matches (every ps column is NULL)
StatOf(player_id, round) ==
  IF << player_id, round >> \in DOMAIN player_stats /\ player_stats[<< player_id, round >>].present
  THEN { player_stats[<< player_id, round >>] }
  ELSE {}

\* the joined rows of one user: rosters with is_submitted = true, their
\* roster_players, the player and the snapshot of the roster's round
LeaderboardJoin(u) ==
  { [roster_id |-> x[1].id, round |-> x[1].round, player_id |-> x[2].player_id,
     is_star |-> x[2].is_star, position |-> players[x[2].player_id].position,
     ps |-> StatOf(x[2].player_id, x[1].round)] :
      x \in { y \in rosters \X roster_players :
                /\ y[1].user_id = u.id /\ y[1].is_submitted
                /\ y[2].roster_id = y[1].id } }

\* a mutation of StarFactor: a star counts like any other selection
StarFactorIgnored(is_star) == 1

\* CASE WHEN rp.is_star THEN 2 ELSE 1 END
StarFactor(is_star) == IF is_star THEN 2 ELSE 1

\* the CASE expression of the view for one joined row that has a snapshot
RowPoints(j) ==
  LET ps == CHOOSE r \in j.ps : TRUE
  IN  IF j.position \in {"forward", "defense"}
      THEN (ps.goals + ps.assists) * StarFactor(j.is_star)
      ELSE (ps.wins * 2 + ps.shutouts) * StarFactor(j.is_star)

\* COALESCE(SUM(CASE ...), 0): SUM skips the rows whose value is NULL
TotalPoints(rows) == SumFn([j \in { k \in rows : k.ps # {} } |-> RowPoints(j)])

\* COALESCE(SUM(CASE WHEN ps.round = n THEN ... ELSE 0 END), 0)
RoundPoints(rows, n) ==
  SumFn([j \in rows |-> IF j.ps # {} /\ j.round = n THEN RowPoints(j) ELSE 0])

ViewRow(u) ==
  LET rows == LeaderboardJoin(u)
  IN  [user_id |-> u.id, total_points |-> TotalPoints(rows),
       r1_points |-> RoundPoints(rows, 1), r2_points |-> RoundPoints(rows, 2),
       r3_points |-> RoundPoints(rows, 3)]

\* FROM users u ... WHERE u.is_verified = true GROUP BY u.id
leaderboard == { ViewRow(u) : u \in { v \in users : v.is_verified } }

LowestRows(rows) == { r \in rows : \A o \in rows : r.total_points <= o.total_points }

\* the sets of k rows that ORDER BY total_points DESC can put last
RECURSIVE LastRows(_, _)
LastRows(rows, k) ==
  IF k = 0 THEN { {} }
  ELSE UNION { { {d} \cup rest : rest \in LastRows(rows \ {d}, k - 1) } :
               d \in LowestRows(rows) }

\* the sets of rows ORDER BY total_points DESC LIMIT n can list
Listings(rows, n) ==
  IF Cardinality(rows) <= n THEN { rows }
  ELSE { rows \ last : last \in LastRows(rows, Cardinality(rows) - n) }

\* routes/standings.js: SELECT * FROM leaderboard; call and ret keep the
\* latest read of the tables as they are
GetStandings ==
  /\ call' = [fn |-> "standings"]
  /\ ret' = [returned |-> TRUE, standings |-> leaderboard]
  /\ UNCHANGED << syncVars, faults, rosterVars, users, elimVars >>

\* the other standings route: ... FROM leaderboard ORDER BY total_points DESC LIMIT 100
GetStandingsLimited ==
  /\ call' = [fn |-> "standings_limited"]
  /\ \E listed \in Listings(leaderboard, STANDINGS_LIMIT) :
       ret' = [returned |-> TRUE, standings |-> listed]
  /\ UNCHANGED << syncVars, faults, rosterVars, users, elimVars >>

\* a second body of a complete roster: players 1, 4 and 6 are not stars
OtherStarsBody == WithWest(<<1, 2, 3>>, Stars(2, 5, 12), {})

RosterRows(id, body) ==
  { [roster_id |-> id, player_id |-> pid, is_star |-> IsStar(body.stars, pid)] :
      pid \in SeqRange(AllPlayers(body.selections)) }

RosterOf(id, u, round, submitted) ==
  [id |-> id, user_id |-> u, round |-> round, is_submitted |-> submitted]

\* rosters the leaderboard is read over, per (user, round): none, or one with
\* one of bodies, saved or submitted as flags says
BoardRosters(id, u, round, flags, bodies) ==
  { [rosters |-> {}, roster_players |-> {}] } \cup
  { [rosters |-> { RosterOf(id, u, round, sub) }, roster_players |-> RosterRows(id, body)] :
      sub \in flags, body \in bodies }

\* player_stats of all players when the seed script stopped before it
\* reached the table, and as it leaves it: a row of zeros for every player
\* and round
UnseededStats == [k \in AllStatKeys |-> NoRow]

SeededStats == [k \in AllStatKeys |-> UpsertRow(NoRow, ZeroRow)]

\* what the game log of an active player p aggregates to in a sync run
ParsedLog(up, p) ==
  parseGameLogStats(IF up[p].found THEN up[p].gameLog ELSE << >>,
                    players[p].position = "goalie")

\* player_stats after a sync run over the game logs up, on the rows base:
\* three snapshots per active player; the rows of an inactive player, and of
\* a player whose log made parseGameLogStats throw, are left as they were
StatsAfterSyncOn(base, up) ==
  [k \in DOMAIN base |->
     IF k[1] \notin ActiveIds \/ ParsedLog(up, k[1]).threw THEN base[k]
     ELSE UpsertRow(base[k], ParsedLog(up, k[1]).stats[k[2]])]

\* the same on the rows of the active players, none written before
StatsAfterSync(up) == StatsAfterSyncOn(NoStats, up)

\* the row of stat_update_log that run closes: the players whose upserts were
\* made are counted, those whose log threw are listed, the status is
\* 'completed' either way
LogAfterSync(up) ==
  [status |-> "completed",
   players_updated |-> Cardinality({ p \in ActiveIds : ~ParsedLog(up, p).threw }),
   errors |-> SelectSeq([i \in DOMAIN ActivePlayers |-> PlayerError(ActivePlayers[i])],
                        LAMBDA e : ParsedLog(up, e.id).threw)]

\* the sync side of the database before any run, and after the run with log
\* id 1 over the game logs up
NeverSynced(base) ==
  /\ player_stats = base
  /\ stat_update_log = << >>
  /\ settings = [stats_last_updated |-> 0, stats_verified |-> FALSE]

SyncedOnce(base, up) ==
  /\ player_stats = StatsAfterSyncOn(base, up)
  /\ stat_update_log = << LogAfterSync(up) >>
  /\ settings = [stats_last_updated |-> 1, stats_verified |-> TRUE]

User(id, verified) == [id |-> id, is_verified |-> verified]

\* users 1 and 2 are verified, user 3 is not
BaseUsers == { User(1, TRUE), User(2, TRUE), User(3, FALSE) }

Crowd == { User(2 + n, TRUE) : n \in 1..MaxCrowd }

\* uuid_generate_v4() of a new users row: an id no row uses
FreshUserId == Min({ n \in 1..(Cardinality(users) + 1) : \A u \in users : u.id # n })

\* POST /register with a username and an email no row has: INSERT INTO users;
\* one of the two route files leaves is_verified to its default, false, and
\* the other inserts true
Register(verified) ==
  /\ Cardinality(users) < MaxUsers
  /\ users' = users \cup { User(FreshUserId, verified) }
  /\ call' = NoCall
  /\ ret' = NoRet
  /\ UNCHANGED << syncVars, faults, rosterVars, elimVars >>

\* POST /verify with the email and the code of an unverified user:
\* UPDATE users SET is_verified = true, verification_code = null WHERE ...;
\* with another code no row matches and nothing changes
Verify(id) ==
  /\ User(id, FALSE) \in users
  /\ users' = (users \ { User(id, FALSE) }) \cup { User(id, TRUE) }
  /\ call' = NoCall
  /\ ret' = NoRet
  /\ UNCHANGED << syncVars, faults, rosterVars, elimVars >>

\* the tables the leaderboard reads: rosters as the transactional route
\* commits them and a submit marks them, statistics as the seed script and a
\* completed sync run over three active players leave them, read by a
\* process that has made no sync call itself; the upstream knows the players
\* who have played.  Either three users, or 101 verified users of whom only
\* user 1 has a roster.
InitLeaderboard ==
  /\ active_players = ThreeActive
  /\ sync = [r \in Runs |-> IdleSync]
  /\ statsAfterRun = [r \in Runs |-> NoStats]
  /\ faults = 0
  /\ variant = "tx"
  /\ now = 0
  /\ pick_deadline = MigratedDeadlines
  /\ team_qualifications = PlayoffTeams
  /\ tiebreakers = {}
  /\ req = [i \in Slots |-> IdleReq]
  /\ call = NoCall
  /\ ret = NoRet
  /\ ElimIdle
  /\ upstream \in [ActiveIds -> UNION { UpstreamFor(p) : p \in ActiveIds }]
  /\ \A p \in ActiveIds : upstream[p] \in UpstreamFor(p)
  /\ \A p, q \in ActiveIds :
       p # q => Len(upstream[p].gameLog) + Len(upstream[q].gameLog) <= MaxGames
  /\ \A p \in ActiveIds : upstream[p].found => Len(upstream[p].gameLog) > 0
  /\ \E base \in { UnseededStats, SeededStats } :
       \/ NeverSynced(base) /\ \A p \in ActiveIds : ~upstream[p].found
       \/ SyncedOnce(base, upstream)
  /\ \E a \in BoardRosters(1, 1, 1, BOOLEAN, {FullBody, OtherStarsBody}),
        b \in BoardRosters(2, 1, 2, {TRUE}, {FullBody, OtherStarsBody}),
        c \in BoardRosters(3, 2, 3, {TRUE}, {FullBody}) :
       /\ rosters = a.rosters \cup b.rosters \cup c.rosters
       /\ roster_players = a.roster_players \cup b.roster_players \cup c.roster_players
       /\ \/ users = BaseUsers
          \/ /\ users = { User(1, TRUE), User(2, TRUE) } \cup Crowd
             /\ a.rosters = { RosterOf(1, 1, 1, TRUE) } /\ b.rosters = {} /\ c.rosters = {}
             /\ upstream[1].found /\ Len(upstream[1].gameLog) = 1
             /\ \A p \in ActiveIds \ {1} : ~upstream[p].found

\* reads of the leaderboard, registrations and verifications in any order
NextLeaderboard ==
  \/ GetStandings
  \/ GetStandingsLimited
  \/ \E verified \in BOOLEAN : Register(verified)
  \/ \E u \in users : Verify(u.id)

SpecLeaderboard == InitLeaderboard /\ [][NextLeaderboard]_vars

(***************************************************************************)
(* The pure functions of nhlApi.js, called on their own                    *)
(***************************************************************************)
\* game ids: short ones, every round code with every trailing pair, and the
\* same behind a season and game-type prefix
GameIds == (0..MaxGameId) \cup { 2023030000 + n : n \in 0..MaxGameId }

\* no sync and no roster request takes part
OnlyCalls == SyncIdle /\ RosterTablesEmpty /\ ElimIdle /\ users = {} /\ ret = NoRet

InitClassify ==
  /\ OnlyCalls
  /\ \E id \in GameIds : call = [fn |-> "determineRound", gameId |-> id]

\* this.determineRound(game.gameId)
Classify ==
  /\ call.fn = "determineRound" /\ ~ret.returned
  /\ ret' = [returned |-> TRUE, round |-> determineRound(call.gameId)]
  /\ UNCHANGED << syncVars, faults, rosterVars, users, call, elimVars >>

SpecClassify == InitClassify /\ [][Classify]_vars


\* games of the logs the aggregator is called with: every combination of the
\* fields it reads, in a round-1 and a round-3 game
GoalieLogGames ==
  { Game(id, {}, {}, dec, so, ga) :
      id \in {1101, 3403}, dec \in {"W", "L"}, so \in {{}, {0}, {1}, {2}}, ga \in {{}, {0}, {1}} }

SkaterLogGames ==
  { Game(id, g, a, "", {}, {}) : id \in {1101, 2102}, g \in {{}, {0}, {2}}, a \in {{}, {1}} }
    \cup { MalformedGame }

InitAggregate ==
  /\ OnlyCalls
  /\ \E isGoalie \in BOOLEAN :
       \E log \in SeqsUpTo(IF isGoalie THEN GoalieLogGames ELSE SkaterLogGames, MaxGames) :
         call = [fn |-> "parseGameLogStats", gameLog |-> log, isGoalie |-> isGoalie]

\* this.parseGameLogStats(gameLog, isGoalie)
Aggregate ==
  /\ call.fn = "parseGameLogStats" /\ ~ret.returned
  /\ LET parsed == parseGameLogStats(call.gameLog, call.isGoalie)
     IN  ret' = [returned |-> TRUE, threw |-> parsed.threw, stats |-> parsed.stats]
  /\ UNCHANGED << syncVars, faults, rosterVars, users, call, elimVars >>

SpecAggregate == InitAggregate /\ [][Aggregate]_vars


(***************************************************************************)
(* Properties of the sync orchestrator                                     *)
(***************************************************************************)
Range(f) == { f[i] : i \in DOMAIN f }

CountOf(seq, v) == Cardinality({ i \in DOMAIN seq : seq[i] = v })

\* SelectSeq(errors, kind = "player") as the sequence of player ids
RECURSIVE PlayerErrorsFrom(_, _)
PlayerErrorsFrom(errors, i) ==
  IF i > Len(errors) THEN << >>
  ELSE (IF errors[i].kind = "player" THEN << errors[i].id >> ELSE << >>)
       \o PlayerErrorsFrom(errors, i + 1)

RECURSIVE ThrewFrom(_, _)
ThrewFrom(outcome, i) ==
  IF i > Len(outcome) THEN << >>
  ELSE (IF outcome[i] = "threw" THEN << ActivePlayers[i] >> ELSE << >>)
       \o ThrewFrom(outcome, i + 1)

\* C1: once a sync run has returned, every snapshot that existed when it
\* returned keeps the same goals, assists, wins, shutouts and games played
\* during and after the next run over the unchanged upstream game logs: the
\* upsert replaces the totals and never adds to them.
SyncTwiceLeavesSnapshotsUnchanged ==
  \A r \in Runs :
    sync[r].pc = "done" =>
      \A k \in StatKeys :
        statsAfterRun[r][k].present => player_stats[k] = statsAfterRun[r][k]

\* C1 witness: two runs returned, both upserted every player, and a snapshot
\* holds non-zero totals
TwoFullRunsDone ==
  /\ sync[1].pc = "done" /\ sync[1].result.playersUpdated = Len(ActivePlayers)
  /\ sync[2].pc = "done" /\ sync[2].result.playersUpdated = Len(ActivePlayers)
  /\ \E k \in StatKeys : player_stats[k].goals > 0
  /\ \E k \in StatKeys : player_stats[k].shutouts > 0

\* C10: when the processing of a player threw in a run, that player is in the
\* run's error list, and the run still iterates every active player and then
\* returns a summary whose count is the number of players fully upserted and
\* whose error list names exactly the players that threw, in order.
PlayerFailureDoesNotStopRun ==
  \A r \in Runs :
    LET s == sync[r]
    IN  "threw" \in Range(s.outcome) =>
          /\ PlayerErrorsFrom(s.errors, 1) = ThrewFrom(s.outcome, 1)
          /\ s.pc = "done" =>
               /\ Len(s.outcome) = Len(ActivePlayers)
               /\ s.result.returned
               /\ s.result.playersUpdated = CountOf(s.outcome, "updated")
               /\ PlayerErrorsFrom(s.result.errors, 1) = ThrewFrom(s.outcome, 1)

\* C10 witness: the first player's processing threw, a later player was still
\* upserted, and the run returned
RunReturnedAfterPlayerFailure ==
  \E r \in Runs :
    /\ sync[r].pc = "done"
    /\ Len(sync[r].outcome) = Len(ActivePlayers)
    /\ sync[r].outcome[1] = "threw"
    /\ sync[r].outcome[Len(ActivePlayers)] = "updated"
    /\ sync[r].result.playersUpdated = Len(ActivePlayers) - 1
    /\ Len(sync[r].result.errors) = 1


(***************************************************************************)
(* Properties of the roster routes                                         *)
(***************************************************************************)
SelectionsOf(table, id) == { rp \in table : rp.roster_id = id }

SavesDone == { i \in Slots : req[i].kind = "save" /\ req[i].pc = "done" }

SubmitsDone == { i \in Slots : req[i].kind = "submit" /\ req[i].pc = "done" }

\* the players a save request selects (those that exist in table players)
Selected(q) == SeqRange(AllPlayers(q.body.selections)) \cap PlayerIds

\* the rows of roster_players now held by the roster of request q
Persisted(q) ==
  UNION { SelectionsOf(roster_players, r.id) : r \in RostersOf(q, rosters) }

\* the six rejection conditions of a save, on the tables as the request found
\* them, the clock as the deadline test read it, and the deadline and the
\* qualified teams as they are (as the request read them when no admin request
\* changed them since it began: Unchanged)
RoundInvalid(q) == q.round < 1 \/ q.round > 3
NoDeadline(q) == q.round \notin DOMAIN pick_deadline \/ pick_deadline[q.round] = {}
Locked(q) == ~NoDeadline(q) /\ \E d \in pick_deadline[q.round] : q.nowAtCheck > d
WasSubmitted(q) == \E r \in RostersOf(q, q.before.rosters) : r.is_submitted
CostOver(q) == SumCost(Selected(q)) > 30
Unqualified(q) ==
  ~RoundInvalid(q) /\
  \E p \in Selected(q) : players[p].team_abbrev \notin team_qualifications[q.round]

\* no admin request changed the deadline or the qualified teams of the round
\* of request q since q began
Unchanged(q) == ~q.adminChanged

Rejections ==
  << "invalid_round", "no_deadline", "locked", "already_submitted", "over_cap", "unqualified" >>

Applies(q) ==
  << RoundInvalid(q), NoDeadline(q), Locked(q), WasSubmitted(q), CostOver(q), Unqualified(q) >>

ApplyingCount(q) == Cardinality({ n \in 1..6 : Applies(q)[n] })

FirstApplying(q) == Rejections[Min({ n \in 1..6 : Applies(q)[n] })]

\* C2: a roster that is submitted stays submitted and keeps its selections and
\* stars in every step, and a save that found the roster submitted is never
\* answered as saved.
SubmittedRosterNeverChanges ==
  /\ [][\A r \in rosters :
          r.is_submitted =>
            /\ r \in rosters'
            /\ SelectionsOf(roster_players', r.id) = SelectionsOf(roster_players, r.id)]_vars
  /\ [](\A i \in SavesDone :
          WasSubmitted(req[i]) => req[i].resp \notin {"saved", "saved_empty"})

\* C3: the players persisted for one roster never cost more than the cap of 30.
RosterCostWithinCap ==
  \A r \in rosters :
    SumCost({ rp.player_id : rp \in SelectionsOf(roster_players, r.id) }) <= 30

\* no statement of request q was made to fail: none but those the database
\* rejects in every execution
NoStatementFailed(q) == q.failedAt = "none"

\* the checks of a save other than the cap all pass: its players exist and are
\* named once, and no statement was made to fail
OtherChecksPass(q) ==
  /\ ~RoundInvalid(q) /\ ~NoDeadline(q) /\ ~Locked(q) /\ ~WasSubmitted(q) /\ ~Unqualified(q)
  /\ Unchanged(q)
  /\ Cardinality(Selected(q)) = Len(AllPlayers(q.body.selections))
  /\ NoStatementFailed(q)

\* C4: a save whose players cost more than 30, when no statement was made to
\* fail before the cap test, is answered with a rejection,
\* the over-cap one unless an earlier check rejected it; a save that costs at
\* most 30 is never rejected as over the cap; and a save that costs exactly 30
\* and passes the other checks is answered as saved with exactly its players
\* persisted for the roster.
CapBoundary ==
  \A i \in SavesDone :
    LET q == req[i]
        cost == SumCost(Selected(q))
    IN  /\ (cost > 30 /\ q.failedAt = "none") =>
             q.resp \in {"invalid_round", "no_deadline", "locked", "already_submitted",
                         "over_cap"}
        /\ q.resp = "over_cap" => cost > 30
        /\ (cost = 30 /\ OtherChecksPass(q)) =>
             /\ q.resp = "saved"
             /\ { rp.player_id : rp \in Persisted(q) } = Selected(q)

\* the composition rule in the words of the claim
InRole(rows, conf, pos) ==
  { rp \in rows : /\ players[rp.player_id].position = pos
                  /\ teams[players[rp.player_id].team_abbrev].conference = conf }

RequiredComposition(rows) ==
  /\ \A conf \in {"western", "eastern"} :
       /\ Cardinality(InRole(rows, conf, "forward")) = 3
       /\ Cardinality(InRole(rows, conf, "defense")) = 2
       /\ Cardinality(InRole(rows, conf, "goalie")) = 1
  /\ Cardinality(rows) = 12
  /\ Cardinality({ rp \in rows : rp.is_star }) = 3

\* C5: a submit is answered as submitted only when the roster's selections
\* are 3F/2D/1G in each conference with exactly 3 stars, and it then marks the
\* roster submitted; it is answered as incomplete only when they are not, and
\* it then leaves the submitted flag as it was; and a submit for a roster with
\* that composition, on a valid open round and not yet submitted, is answered
\* as submitted when the database rejected none of its statements.
SubmitIffComplete ==
  \A i \in SubmitsDone :
    LET q == req[i]
    IN  /\ q.resp = "submitted" =>
             /\ RequiredComposition(Persisted(q))
             /\ \A r \in RostersOf(q, rosters) : r.is_submitted
        /\ q.resp = "incomplete" =>
             /\ ~RequiredComposition(Persisted(q))
             /\ RostersOf(q, rosters) = RostersOf(q, q.before.rosters)
        /\ ( /\ RequiredComposition(Persisted(q))
              /\ ~RoundInvalid(q) /\ ~NoDeadline(q) /\ ~Locked(q)
              /\ RostersOf(q, q.before.rosters) # {}
              /\ ~WasSubmitted(q)
              /\ Unchanged(q)
              /\ q.failedAt = "none" ) => q.resp = "submitted"

\* C5 witness: the route without a transaction accepted the submit of a
\* complete roster, and the roster is marked submitted
SubmitAccepted ==
  /\ variant = "plain"
  /\ \E i \in SubmitsDone :
       /\ req[i].resp = "submitted" /\ Cardinality(Persisted(req[i])) = 12
       /\ \A r \in RostersOf(req[i], rosters) : r.is_submitted

StarredIn(rows, pos) ==
  { rp \in rows : rp.is_star /\ players[rp.player_id].position = pos }

\* C6: every submitted roster has exactly one starred forward, one starred
\* defenseman and one starred goaltender.
SubmittedHasOneStarPerRole ==
  \A r \in rosters :
    r.is_submitted =>
      \A pos \in {"forward", "defense", "goalie"} :
        Cardinality(StarredIn(SelectionsOf(roster_players, r.id), pos)) = 1

\* C7: a save that validation refuses leaves the roster tables as the request
\* found them: a save answered with one of the six rejections, and a save to
\* which one of the six rejection conditions applies and that is not answered
\* as saved (when no statement was made to fail).
RejectedSaveChangesNothing ==
  \A i \in SavesDone :
    LET q == req[i]
    IN  /\ q.resp \in SeqRange(Rejections) => Tables = q.before
        /\ ( /\ ApplyingCount(q) >= 1 /\ Unchanged(q) /\ NoStatementFailed(q)
              /\ q.resp \notin {"saved", "saved_empty"} ) => Tables = q.before

\* C8: a save that names a player of a team not qualified for the round is
\* answered with one of the rejections of validation (none of its statements
\* being made to fail), and after a save answered as saved every selection
\* persisted for that roster is a player of a team qualified for the round
\* (the qualified teams being those the save read).
SavedSelectionsAreQualified ==
  \A i \in SavesDone :
    LET q == req[i]
    IN  Unchanged(q) =>
          /\ (Unqualified(q) /\ NoStatementFailed(q)) => q.resp \in SeqRange(Rejections)
          /\ q.resp = "saved" =>
               \A rp \in Persisted(q) :
                 players[rp.player_id].team_abbrev \in team_qualifications[q.round]

\* C9: when more than one rejection condition holds for a save, the answer is
\* the first of them in the order invalid round, no deadline, locked, already
\* submitted, over cap, unqualified (for a request none of whose statements
\* was made to fail).
FirstRejectionReported ==
  \A i \in SavesDone :
    (ApplyingCount(req[i]) >= 2 /\ NoStatementFailed(req[i]) /\ Unchanged(req[i])) =>
      req[i].resp = FirstApplying(req[i])

(***************************************************************************)
(* Properties of the leaderboard                                           *)
(***************************************************************************)
StandingsReturned == call.fn \in {"standings", "standings_limited"} /\ ret.returned

\* points of one selection in the words of the scoring contract
Score(position, snap, star) ==
  (IF position = "goalie" THEN snap.wins * 2 + snap.shutouts ELSE snap.goals + snap.assists)
    * (IF star THEN 2 ELSE 1)

\* the snapshot of a player for a round; all zero when there is none
SnapshotFor(pid, round) ==
  IF << pid, round >> \in DOMAIN player_stats THEN player_stats[<< pid, round >>] ELSE NoRow

SubmittedRostersOf(uid) == { r \in rosters : r.user_id = uid /\ r.is_submitted }

\* the selections of the submitted rosters of a user, each with its roster
CountedSelections(uid, rounds) ==
  { x \in SubmittedRostersOf(uid) \X roster_players :
      x[2].roster_id = x[1].id /\ x[1].round \in rounds }

ExpectedPoints(uid, rounds) ==
  SumFn([x \in CountedSelections(uid, rounds) |->
           Score(players[x[2].player_id].position,
                 SnapshotFor(x[2].player_id, x[1].round), x[2].is_star)])

\* C11: every entry of a returned leaderboard has as total points the sum,
\* over the selections of the user's submitted rosters, of (goals + assists)
\* for a forward or defenseman and (wins x 2 + shutouts) for a goaltender,
\* doubled for a star, read from the snapshot of the roster's round.
LeaderboardTotalsFollowScoring ==
  StandingsReturned =>
    \A e \in ret.standings : e.total_points = ExpectedPoints(e.user_id, Rounds)

\* C11 witness: user 1 is listed with exactly the points earned by a starred
\* forward, a starred defenseman and a starred goaltender of a submitted
\* round-1 roster, each of whom has points in the round-1 snapshot
StarPointsListed ==
  /\ StandingsReturned
  /\ SubmittedRostersOf(1) = { RosterOf(1, 1, 1, TRUE) }
  /\ \E f, d, g \in roster_players :
       /\ f.roster_id = 1 /\ f.player_id = 1 /\ f.is_star
       /\ d.roster_id = 1 /\ d.player_id = 4 /\ d.is_star
       /\ g.roster_id = 1 /\ g.player_id = 6 /\ g.is_star
  /\ players[1].position = "forward" /\ players[4].position = "defense"
  /\ players[6].position = "goalie"
  /\ SnapshotFor(1, 1).goals + SnapshotFor(1, 1).assists > 0
  /\ SnapshotFor(4, 1).goals + SnapshotFor(4, 1).assists > 0
  /\ SnapshotFor(6, 1).wins > 0 /\ SnapshotFor(6, 1).shutouts > 0
  /\ \E e \in ret.standings :
       /\ e.user_id = 1
       /\ e.total_points = 2 * (SnapshotFor(1, 1).goals + SnapshotFor(1, 1).assists)
                           + 2 * (SnapshotFor(4, 1).goals + SnapshotFor(4, 1).assists)
                           + 2 * (2 * SnapshotFor(6, 1).wins + SnapshotFor(6, 1).shutouts)

\* C12: a returned leaderboard lists every verified user; a listed user's
\* points come from submitted rosters only, and a verified user without a
\* submitted roster is listed with total and per-round points 0.
EveryVerifiedUserListed ==
  StandingsReturned =>
    \A u \in users :
      u.is_verified =>
        \E e \in ret.standings :
          /\ e.user_id = u.id
          /\ e.total_points = ExpectedPoints(u.id, Rounds)
          /\ SubmittedRostersOf(u.id) = {} =>
               /\ e.total_points = 0
               /\ e.r1_points = 0 /\ e.r2_points = 0 /\ e.r3_points = 0

(***************************************************************************)
(* Properties of the round classifier and the stat aggregator              *)
(***************************************************************************)
\* the two digits before the trailing two digits, read digit by digit
CodeOf(id) == 10 * ((id \div 1000) % 10) + ((id \div 100) % 10)

\* C13: determineRound always answers 1, 2 or 3: 1 for a code in 11-17, 2 for
\* a code in 21-27, 3 for a code in 31-47, and 1 for every other code and for
\* every identifier shorter than 4 characters.
ClassifierIsTotal ==
  (call.fn = "determineRound" /\ ret.returned) =>
    LET id == call.gameId
        code == CodeOf(id)
        long == id >= 1000
    IN  /\ ret.round \in {1, 2, 3}
        /\ (long /\ code \in 11..17) => ret.round = 1
        /\ (long /\ code \in 21..27) => ret.round = 2
        /\ (long /\ code \in 31..47) => ret.round = 3
        /\ (~long \/ code \notin (11..17) \cup (21..27) \cup (31..47)) => ret.round = 1

\* C13 witness: a Cup Final game (code 47) behind a season prefix was put in
\* round 3
CupFinalClassified ==
  /\ call.fn = "determineRound" /\ ret.returned
  /\ call.gameId > MaxGameId /\ CodeOf(call.gameId) = 47 /\ ret.round = 3

\* a returned aggregation of a goaltender log of exactly one game
OneGoalieGameAggregated ==
  /\ call.fn = "parseGameLogStats" /\ ret.returned /\ ~ret.threw
  /\ call.isGoalie /\ Len(call.gameLog) = 1

\* C14: for a goaltender log of one game, a win with zero goals against and
\* no shutout field gives shutouts = 1 in the game's round, and a game with an
\* explicit shutout count of 2 gives shutouts = 2 in its round whatever the
\* goals against are; the other rounds get no shutout.
SingleGameShutoutCredit ==
  OneGoalieGameAggregated =>
    LET game == call.gameLog[1]
        round == determineRound(game.gameId)
    IN  /\ (game.decision = "W" /\ game.goalsAgainst = {0} /\ game.shutouts = {}) =>
             ret.stats[round].shutouts = 1
        /\ game.shutouts = {2} => ret.stats[round].shutouts = 2
        /\ \A other \in Rounds \ {round} : ret.stats[other].shutouts = 0

\* C14 witness: a clean win that also carries an explicit shutout count of 2
\* was aggregated to 2 shutouts
ExplicitShutoutsKept ==
  /\ OneGoalieGameAggregated
  /\ call.gameLog[1].shutouts = {2} /\ call.gameLog[1].goalsAgainst = {0}
  /\ call.gameLog[1].decision = "W"
  /\ ret.stats[determineRound(call.gameLog[1].gameId)].shutouts = 2

(***************************************************************************)
(* More properties of the roster routes                                    *)
(***************************************************************************)
PastDeadline(n) == \E d \in pick_deadline[n] : now > d

\* C15: while the clock is past the pick deadline of a round, no step changes
\* the rosters of that round, their submitted flags, their selections or
\* their stars, whenever the request that takes the step began (the deadline
\* being one that no admin request moved under a request).
NoWriteAfterDeadline ==
  [][\A n \in Rounds :
       (PastDeadline(n) /\ \A i \in Slots : Unchanged(req[i])) =>
         /\ { r \in rosters' : r.round = n } = { r \in rosters : r.round = n }
         /\ \A r \in rosters :
              r.round = n =>
                SelectionsOf(roster_players', r.id) = SelectionsOf(roster_players, r.id)]_vars

\* C16: there is never more than one roster of a user for a round, also when
\* two first saves of the same user and round both find no roster.
OneRosterPerUserRound ==
  \A r1, r2 \in rosters :
    (r1.user_id = r2.user_id /\ r1.round = r2.round) => r1 = r2

\* C16 witness: two saves of one user and round were in flight on an empty
\* table; one created the roster and the other was refused by the key
SecondFirstSaveRefused ==
  /\ \A i \in Slots : req[i].kind = "save" /\ req[i].before.rosters = {}
  /\ req["a"].user = req["b"].user /\ req["a"].round = req["b"].round
  /\ \E i \in Slots :
       /\ req[i].pc = "done" /\ req[i].resp \in {"duplicate", "error"}
       /\ req[i].rosterId = 0
  /\ Cardinality(rosters) = 1

\* C18: a save in which a statement failed (answered 500, or not answered
\* when the connection was lost) leaves the selections and the tiebreakers as
\* the request found them: neither its deletion nor any of its inserts is
\* persisted.
FailedSaveRestoresSelections ==
  \A i \in SavesDone :
    req[i].resp \in {"error", "unanswered"} =>
      /\ roster_players = req[i].before.roster_players
      /\ tiebreakers = req[i].before.tiebreakers

\* C20: however a save and a submit of one user for one round interleave,
\* the persisted selections of every roster marked submitted are 3F/2D/1G in
\* each conference with 3 stars: a save that read the roster as not submitted
\* before the submit committed neither deletes nor replaces them afterwards.
SubmittedRosterIsComplete ==
  \A r \in rosters :
    r.is_submitted => RequiredComposition(SelectionsOf(roster_players, r.id))

(***************************************************************************)
(* More properties of the sync orchestrator                                *)
(***************************************************************************)
\* iterations of run r that are over and whose player the upstream does not
\* know (it answers the game-log request with 404)
NotFoundIterations(r) ==
  { i \in DOMAIN sync[r].outcome : ~upstream[ActivePlayers[i]].found }

\* C17: as long as no transport or database failure occurred, the iteration
\* of a player whose game-log request is answered 404 ends as an update: no
\* error is recorded for the player, the three snapshots of the player exist
\* with all-zero totals, and the player is counted in playersUpdated.
NotFoundIsAnEmptyLog ==
  faults = 0 =>
    \A r \in Runs : \A i \in NotFoundIterations(r) :
      LET p == ActivePlayers[i]
          s == sync[r]
      IN  /\ s.outcome[i] = "updated"
          /\ PlayerError(p) \notin Range(s.errors)
          /\ \A round \in Rounds : player_stats[<< p, round >>] = UpsertRow(NoRow, ZeroRow)
          /\ s.playersUpdated >= Cardinality({ j \in NotFoundIterations(r) : j <= i })

\* C17 witness: a run returned after every player was answered 404, with all
\* of them counted and no error
AllNotFoundRunReturned ==
  /\ faults = 0
  /\ \A p \in ActiveIds : ~upstream[p].found
  /\ sync[1].pc = "done" /\ sync[1].result.returned
  /\ sync[1].result.playersUpdated = Len(ActivePlayers)
  /\ sync[1].result.errors = << >>
  /\ \A k \in StatKeys : player_stats[k].present /\ player_stats[k].games_played = 0


(***************************************************************************)
(* Properties of overlapping sync runs                                     *)
(***************************************************************************)
\* the row one upsert statement writes from a returned game log
SnapshotOfLog(e, round) ==
  UpsertRow(NoRow,
            parseGameLogStats(e.gameLog, players[e.player].position = "goalie").stats[round])

ReturnedLogs(p) ==
  { e \in UNION { SeqRange(sync[r].fetched) : r \in Runs } :
      /\ e.player = p
      /\ ~parseGameLogStats(e.gameLog, players[p].position = "goalie").threw }

NoRunInProgress == \A r \in Runs : sync[r].pc \in {"idle", "done"}

UpstreamUnchanged ==
  \A r \in Runs : \A e \in SeqRange(sync[r].fetched) :
    e.gameLog = getPlayerGameLog(upstream[e.player]).gameLog

\* C19: while sync runs overlap, every snapshot present equals the full
\* aggregate of one game log that was returned for its player, never a sum or
\* a blend of two runs' values; and when the runs have ended and the upstream
\* data never changed, the snapshots are those a single run leaves.
OverlappingRunsKeepWholeSnapshots ==
  /\ \A k \in StatKeys :
       player_stats[k].present =>
         \E e \in ReturnedLogs(k[1]) : player_stats[k] = SnapshotOfLog(e, k[2])
  /\ (NoRunInProgress /\ sync[1].pc = "done" /\ UpstreamUnchanged)
       => player_stats = StatsAfterSync(upstream)

\* two runs are writing the same player's rows from different game logs: the
\* round 1 row was last written by run 2 and the round 2 row by run 1
TwoRunsWritingOnePlayer ==
  /\ sync[1].pc = "upsert" /\ sync[2].pc = "upsert"
  /\ sync[1].idx = sync[2].idx
  /\ sync[1].rnd = 3 /\ sync[2].rnd = 2
  /\ LET p == ActivePlayers[sync[1].idx]
     IN  /\ sync[1].stats[1] # sync[2].stats[1]
         /\ player_stats[<< p, 1 >>] = UpsertRow(NoRow, sync[2].stats[1])
         /\ player_stats[<< p, 2 >>] = UpsertRow(NoRow, sync[1].stats[2])
         /\ player_stats[<< p, 2 >>].games_played > 0


(***************************************************************************)
(* Properties of the run's log entry, error list and pacing                *)
(***************************************************************************)
\* C21: a run opens one log entry as 'running'; when it returns, the entry is
\* closed as 'completed' unless a fatal exception occurred before the loop
\* finished iterating: once every active player has been iterated the entry
\* is closed as 'completed', never as 'failed'.
LogClosedCompletedAfterLoop ==
  /\ Len(stat_update_log) = Cardinality({ r \in Runs : sync[r].pc # "idle" })
  /\ \A r \in Runs :
       LET s == sync[r]
       IN  /\ s.pc \notin {"idle", "done"} => stat_update_log[s.logId].status = "running"
           /\ s.pc = "done" =>
                /\ stat_update_log[s.logId].status \in {"completed", "failed"}
                /\ Len(s.outcome) = Len(ActivePlayers)
                     => stat_update_log[s.logId].status = "completed"

\* C22: a transport failure other than not-found while fetching a player's
\* game log is recorded in the run's error list, which the run returns and
\* stores in its log entry, and the run goes on with the next player.
TransportFailureRecorded ==
  \A r \in Runs :
    LET s == sync[r]
    IN  \A n \in DOMAIN s.outcome :
          s.outcome[n] = "nodata" =>
            /\ PlayerError(ActivePlayers[n]) \in SeqRange(s.errors)
            /\ s.pc = "done" =>
                 /\ PlayerError(ActivePlayers[n]) \in SeqRange(s.result.errors)
                 /\ PlayerError(ActivePlayers[n])
                      \in SeqRange(stat_update_log[s.logId].errors)
                 /\ Len(s.outcome) = Len(ActivePlayers)

\* C28: within a run the fetches are issued one at a time in player order,
\* and the fetch of the next player begins only from the pacing delay that
\* follows the previous player's fetch, however that player's processing
\* ended.
EveryFetchIsPaced ==
  [][\A r \in Runs :
       /\ sync'[r].idx \in {sync[r].idx, sync[r].idx + 1}
       /\ (sync[r].idx >= 1 /\ sync'[r].idx = sync[r].idx + 1)
            => (sync[r].pc = "sleep" /\ sync'[r].pc = "fetch")]_vars


(***************************************************************************)
(* More properties of the stat aggregator                                  *)
(***************************************************************************)
\* the shutout credit of one goaltender game as the specification words it;
\* a reported count of 0 is read as no credit given yet
ShutoutCredit(game) ==
  IF Truthy(game.shutouts) THEN OrZero(game.shutouts)
  ELSE IF game.decision = "W" /\ game.goalsAgainst = {0} THEN 1
  ELSE 0

GamesOfRound(log, round) ==
  { i \in DOMAIN log : ~log[i].malformed /\ determineRound(log[i].gameId) = round }

RECURSIVE CreditSum(_, _)
CreditSum(log, S) ==
  IF S = {} THEN 0
  ELSE LET i == CHOOSE x \in S : TRUE
       IN  ShutoutCredit(log[i]) + CreditSum(log, S \ {i})

\* C27: for a goaltender log, the shutouts of a round are the sum of the
\* per-game credits of the round's games (the reported count when present,
\* else 1 for a win with zero goals against, else 0), and the wins of a round
\* are the number of its games decided as a win.
ShutoutsAreSummedPerGame ==
  (call.fn = "parseGameLogStats" /\ ret.returned /\ ~ret.threw /\ call.isGoalie) =>
    \A round \in Rounds :
      /\ ret.stats[round].shutouts = CreditSum(call.gameLog, GamesOfRound(call.gameLog, round))
      /\ ret.stats[round].wins =
           Cardinality({ i \in GamesOfRound(call.gameLog, round) :
                           call.gameLog[i].decision = "W" })


\* the game log whose aggregate run r is writing
LogBeingWritten(r) == sync[r].fetched[Len(sync[r].fetched)].gameLog

\* C29: aggregation puts every game of a log in exactly one of the rounds 1,
\* 2, 3 and adds one to that round's games played, for skaters and goalies
\* alike, so the games played of the three rounds add up to the length of the
\* log; and the sync writes snapshots for the rounds 1, 2 and 3 only.
EveryGameCountedInOneRound ==
  /\ \A r \in Runs :
       sync[r].pc = "upsert" =>
         LET log == LogBeingWritten(r)
             stats == sync[r].stats
         IN  /\ DOMAIN stats = {1, 2, 3}
             /\ \A round \in DOMAIN stats :
                  stats[round].gamesPlayed = Cardinality(GamesOfRound(log, round))
             /\ stats[1].gamesPlayed + stats[2].gamesPlayed + stats[3].gamesPlayed
                  = Len(log)
             /\ sync[r].rnd \in {1, 2, 3}
  /\ \A k \in DOMAIN player_stats : player_stats[k].present => k[2] \in {1, 2, 3}

\* C29 witness: a goaltender's log with a round-1 and a round-3 game is being
\* written, and its round-1 row is already in the table
TwoRoundLogWritten ==
  \E r \in Runs :
    /\ sync[r].pc = "upsert" /\ sync[r].rnd = 3
    /\ players[ActivePlayers[sync[r].idx]].position = "goalie"
    /\ Len(LogBeingWritten(r)) = 2
    /\ sync[r].stats[1].gamesPlayed = 1 /\ sync[r].stats[3].gamesPlayed = 1
    /\ player_stats[<< ActivePlayers[sync[r].idx], 1 >>].games_played = 1


(***************************************************************************)
(* More properties of the leaderboard                                      *)
(***************************************************************************)
\* C30: in every entry of a returned leaderboard the total points are the
\* round-1 plus the round-2 plus the round-3 points, and the points of round
\* n are those of the selections of the user's submitted round-n roster, each
\* scored from the snapshot of that same round n.
RoundPointsComeFromTheirRound ==
  StandingsReturned =>
    \A e \in ret.standings :
      /\ e.total_points = e.r1_points + e.r2_points + e.r3_points
      /\ e.r1_points = ExpectedPoints(e.user_id, {1})
      /\ e.r2_points = ExpectedPoints(e.user_id, {2})
      /\ e.r3_points = ExpectedPoints(e.user_id, {3})

\* C30 witness: user 1 is listed with a submitted round-1 and a submitted
\* round-2 roster that both hold player 1, whose round-1 and round-2 snapshots
\* differ, and with points in both rounds
TwoRoundsListed ==
  /\ StandingsReturned
  /\ RosterOf(1, 1, 1, TRUE) \in rosters /\ RosterOf(2, 1, 2, TRUE) \in rosters
  /\ \E f, g \in roster_players :
       f.roster_id = 1 /\ f.player_id = 1 /\ g.roster_id = 2 /\ g.player_id = 1
  /\ SnapshotFor(1, 1).goals # SnapshotFor(1, 2).goals
  /\ SnapshotFor(1, 1).goals > 0 /\ SnapshotFor(1, 2).goals > 0
  /\ \E e \in ret.standings :
       e.user_id = 1 /\ e.r1_points > 0 /\ e.r2_points > 0 /\ e.r1_points # e.r2_points


(***************************************************************************)
(* Properties of the bracket step                                          *)
(***************************************************************************)
CompletedSeries == { x \in SeqRange(bracket.series) : bracket.hasSeries /\ SeriesCompleted(x) }

\* C23: a team the bracket step has marked eliminated is the losing team of a
\* completed series of the bracket, and its elimination round is that
\* series' round: the winner of a series is never marked because of it,
\* whichever seed it was; and a step that went through the whole bracket has
\* marked the losing team of every completed series.
EliminatedTeamLostItsSeries ==
  /\ \A t \in DOMAIN team_state :
       team_state[t].is_eliminated =>
         \E x \in CompletedSeries :
           x.losingTeamId = TeamId[t] /\ x.round = team_state[t].eliminated_round
  /\ \A r \in Runs :
       (elim[r].pc = "returned" /\ faults = 0) =>
         \A x \in CompletedSeries :
           \E t \in DOMAIN team_state :
             TeamId[t] = x.losingTeamId /\ team_state[t].is_eliminated

\* C25: a failure of the bracket fetch or of an elimination update is not
\* thrown to the caller, and no statement of the bracket step changes the
\* result the player-stats phase returned, the run's log entry, the settings
\* or a snapshot.
BracketFailureNeverFailsSync ==
  [][\A r \in Runs :
       /\ elim'[r].pc = "returned" => ~elim'[r].threw
       /\ elim'[r] # elim[r] =>
            /\ player_stats' = player_stats
            /\ stat_update_log' = stat_update_log
            /\ sync'[r].result = sync[r].result /\ sync[r].result.returned
            /\ stat_update_log[sync[r].logId].status
                 = (IF sync[r].result.success THEN "completed" ELSE "failed")]_vars

\* C25 witness: the update for the second series of the bracket was rejected
\* after the first one was made; the step returned, the run's result says
\* success and its snapshots are there
BracketFailureSwallowed ==
  /\ elim[1].pc = "returned" /\ elim[1].idx = 2 /\ ~elim[1].threw
  /\ elim[2].pc = "idle" /\ faults = 1
  /\ Len(bracket.series) = 2 /\ SeriesCompleted(bracket.series[2])
  /\ team_state[LosingTeam(bracket.series[1])].is_eliminated
  /\ ~team_state[LosingTeam(bracket.series[2])].is_eliminated
  /\ sync[1].result.success /\ stat_update_log[sync[1].logId].status = "completed"
  /\ player_stats = statsAfterRun[1]
  /\ \E k \in StatKeys : player_stats[k].present /\ player_stats[k].games_played > 0


(***************************************************************************)
(* Properties of the verified flag and of a stopped run                    *)
(***************************************************************************)
\* C24: a sync run never changes the 'verified' flag of the stats: the flag
\* changes only by the operator's settings update.
SyncLeavesVerifiedFlag ==
  [][settings'.stats_verified # settings.stats_verified
       => \E isVerified \in BOOLEAN : PutSettings(isVerified)]_vars

\* the players of a stopped run whose iteration ended with all three upserts
\* made, and those not yet processed: their iteration had not ended, or not
\* begun, when the process stopped
ProcessedBy(s) == { n \in DOMAIN s.outcome : s.outcome[n] = "updated" }

NotYetProcessedBy(s) == { n \in DOMAIN ActivePlayers : n > Len(s.outcome) }

\* no other call wrote while run r was at work: none was in progress when it
\* began and none began later
NoLaterRun(r) ==
  /\ DOMAIN sync[r].atStart # {}
  /\ IF r = MaxRuns THEN TRUE ELSE sync[r + 1].pc = "idle"

\* C26: when a run was stopped after k players were processed, the snapshots
\* of those players are the aggregates of the game logs fetched for them, the
\* snapshots of the players not yet processed, the one whose iteration was
\* under way included, are as they were when the run began (no other call
\* being at work since then), and the run's log entry is still 'running'.
HaltedRunLeavesWholeSnapshots ==
  \A r \in Runs :
    LET s == sync[r]
    IN  s.pc = "halted" =>
          /\ stat_update_log[s.logId].status = "running"
          /\ \A n \in ProcessedBy(s) : \A round \in Rounds :
               \E e \in SeqRange(s.fetched) :
                 /\ e.player = ActivePlayers[n]
                 /\ player_stats[<< ActivePlayers[n], round >>] = SnapshotOfLog(e, round)
          /\ NoLaterRun(r) =>
               \A n \in NotYetProcessedBy(s) : \A round \in Rounds :
                 player_stats[<< ActivePlayers[n], round >>]
                   = s.atStart[<< ActivePlayers[n], round >>]

====
